---- MODULE Spec2Model ----
(***************************************************************************)
(* camera_rip: the Go backend that imports photos from a camera card into  *)
(* a photo library, copies selected photos and their raw siblings, deletes *)
(* imported files from the card and serves cached thumbnails.              *)
(*                                                                         *)
(* File names are sequences of one-character strings, so that the string   *)
(* operations of the handlers (prefix, suffix, extension, the NNN_ codec)  *)
(* are computed as the code computes them.                                 *)
(***************************************************************************)
EXTENDS Integers, Sequences, FiniteSets, TLC

VARIABLES now, volDirs, vol, lib, sel, raw, thumbs, req, resp, codec, pool, ui, calls,
          routines, run

vars == <<now, volDirs, vol, lib, sel, raw, thumbs, req, resp, codec, pool, ui, calls,
          routines, run>>

(***************************************************************************)
(* Bounds of the model.                                                    *)
(***************************************************************************)
\* seconds of wall-clock time the model lets pass (session names are seconds)
MaxTime == 2
\* longest folder name given to the filename codec
MaxDirLen == 4
\* longest base name given to the filename codec
MaxBaseLen == 4

(***************************************************************************)
(* Strings.                                                                *)
(***************************************************************************)
Digits == {"0", "1", "2", "3", "4", "5", "6", "7", "8", "9"}

UpperCase == <<"A", "B", "C", "D", "E", "F", "G", "H", "I", "J", "K", "L", "M",
               "N", "O", "P", "Q", "R", "S", "T", "U", "V", "W", "X", "Y", "Z">>

LowerCase == <<"a", "b", "c", "d", "e", "f", "g", "h", "i", "j", "k", "l", "m",
               "n", "o", "p", "q", "r", "s", "t", "u", "v", "w", "x", "y", "z">>

\* strings.ToLower on one character
LowerChar(c) ==
    IF \E i \in 1..Len(UpperCase) : UpperCase[i] = c
    THEN LowerCase[CHOOSE i \in 1..Len(UpperCase) : UpperCase[i] = c]
    ELSE c

ToLower(s) == [i \in 1..Len(s) |-> LowerChar(s[i])]

HasPrefix(s, p) == Len(s) >= Len(p) /\ SubSeq(s, 1, Len(p)) = p

HasSuffix(s, p) == Len(s) >= Len(p) /\ SubSeq(s, Len(s) - Len(p) + 1, Len(s)) = p

TrimSuffix(s, p) == IF HasSuffix(s, p) THEN SubSeq(s, 1, Len(s) - Len(p)) ELSE s

\* filepath.Ext: the suffix beginning at the final dot, empty if there is none
Ext(s) ==
    IF \E i \in 1..Len(s) : s[i] = "."
    THEN LET k == CHOOSE i \in 1..Len(s) :
                     s[i] = "." /\ \A j \in (i + 1)..Len(s) : s[j] # "."
         IN SubSeq(s, k, Len(s))
    ELSE <<>>

\* strconv.Atoi succeeds: an optional sign followed by one or more decimal digits
AtoiOk(s) ==
    LET body == IF Len(s) > 0 /\ s[1] \in {"+", "-"} THEN Tail(s) ELSE s
    IN Len(body) > 0 /\ \A i \in 1..Len(body) : body[i] \in Digits

(***************************************************************************)
(* Filename codec.                                                         *)
(***************************************************************************)
getCanonPrefix(dir) ==
    IF Len(dir) >= 3 /\ AtoiOk(SubSeq(dir, 1, 3)) THEN SubSeq(dir, 1, 3) ELSE <<>>

\* the stored name import and deleteImported compute for a file of folder dir
destFilename(dir, name) ==
    IF getCanonPrefix(dir) # <<>> THEN getCanonPrefix(dir) \o <<"_">> \o name ELSE name

\* the decoder with its length test off by one
splitPrefixedFilenameLongOnly(filename) ==
    IF Len(filename) > 5 /\ filename[4] = "_" /\ AtoiOk(SubSeq(filename, 1, 3))
    THEN <<SubSeq(filename, 1, 3), SubSeq(filename, 5, Len(filename))>>
    ELSE <<(<<>>), filename>>

\* (prefix, originalName) of a stored name
splitPrefixedFilename(filename) ==
    IF Len(filename) > 4 /\ filename[4] = "_" /\ AtoiOk(SubSeq(filename, 1, 3))
    THEN <<SubSeq(filename, 1, 3), SubSeq(filename, 5, Len(filename))>>
    ELSE <<(<<>>), filename>>

(***************************************************************************)
(* The camera card.  One volume, with the two source folders the code      *)
(* looks for.  VolUniverse lists every entry a card of the model may hold, *)
(* in the order ioutil.ReadDir returns them (folder by folder, names       *)
(* sorted bytewise), with its modification time in half days.              *)
(***************************************************************************)
D100 == <<"1", "0", "0", "C", "A", "N", "O", "N">>
D101 == <<"1", "0", "1", "C", "A", "N", "O", "N">>

\* a folder the camera's naming does not give, spelled in lower case
D101canon == <<"1", "0", "1", "c", "a", "n", "o", "n">>

\* the folders findCanonDirectories probes, in its order
checkDirs == <<D100, D101>>

VolUniverse ==
    << [dir |-> D100, name |-> <<".", "_", "A", ".", "J", "P", "G">>, mtime |-> 4, isDir |-> FALSE],
       [dir |-> D100, name |-> <<"A", ".", "C", "R", "3">>, mtime |-> 3, isDir |-> FALSE],
       [dir |-> D100, name |-> <<"A", ".", "J", "P", "G">>, mtime |-> 3, isDir |-> FALSE],
       [dir |-> D100, name |-> <<"B", ".", "C", "R", "3">>, mtime |-> 4, isDir |-> FALSE],
       [dir |-> D100, name |-> <<"B", ".", "m", "p", "4">>, mtime |-> 4, isDir |-> FALSE],
       [dir |-> D100, name |-> <<"X", ".", "J", "P", "G">>, mtime |-> 4, isDir |-> TRUE],
       [dir |-> D101, name |-> <<"A", ".", "C", "R", "3">>, mtime |-> 4, isDir |-> FALSE],
       [dir |-> D101, name |-> <<"A", ".", "j", "p", "g">>, mtime |-> 4, isDir |-> FALSE],
       [dir |-> D101, name |-> <<"B", ".", "J", "P", "G">>, mtime |-> 4, isDir |-> FALSE],
       [dir |-> D101canon, name |-> <<"B", ".", "C", "R", "3">>, mtime |-> 4, isDir |-> FALSE] >>

\* the raw files that lie in a folder other than their photo's
StrayRawFiles ==
    {f \in {VolUniverse[i] : i \in 1..Len(VolUniverse)} :
        \/ f.dir = D100 /\ f.name = <<"B", ".", "C", "R", "3">>
        \/ f.dir = D101 /\ f.name = <<"A", ".", "C", "R", "3">>
        \/ f.dir = D101canon}

\* the files of the cards below
VolFiles == {VolUniverse[i] : i \in 1..Len(VolUniverse)} \ StrayRawFiles

\* the cards of the model: no card, an empty source folder, one folder with a
\* photo, its raw sibling, a video, a sidecar file and a subfolder, and two
\* folders that each hold a photo of the same base name
Cards ==
    { [dirs |-> {}, files |-> {}],
      [dirs |-> {D100}, files |-> {}],
      [dirs |-> {D100}, files |-> {f \in VolFiles : f.dir = D100}],
      [dirs |-> {D100, D101},
       files |-> {f \in VolFiles : f.name \in {<<"A", ".", "C", "R", "3">>,
                                               <<"A", ".", "J", "P", "G">>,
                                               <<"A", ".", "j", "p", "g">>}}] }

\* the modification time of midnight of day d: time.Parse("2006-01-02", since)
DayStart(d) == 2 * d

\* the values of the request's since field: 0 is the empty string, -1 a string
\* that is no YYYY-MM-DD date, d > 0 the date of day d (day 1 is before
\* every file of the cards, day 2 after some of them)
Sinces == {-1, 0, 1, 2}

findCanonDirectories == SelectSeq(checkDirs, LAMBDA d : d \in volDirs)

findUSBMountPoint == Len(findCanonDirectories) > 0

\* ioutil.ReadDir of one source folder of the card holding the files V
ReadDir(V, d) == SelectSeq(VolUniverse, LAMBDA f : f \in V /\ f.dir = d)

(***************************************************************************)
(* File names as the handlers read them.                                   *)
(***************************************************************************)
IsJpg(name) == HasSuffix(ToLower(name), <<".", "j", "p", "g">>)

IsMp4(name) == HasSuffix(ToLower(name), <<".", "m", "p", "4">>)

IsSidecar(name) == HasPrefix(name, <<".", "_">>)

Stem(name) == TrimSuffix(name, Ext(name))

\* stem + ".CR3": the raw file deleteImported and raw export look for
RawName(stem) == stem \o <<".", "C", "R", "3">>

\* what the handlers compute from an entry's folder and name, computed once
NameInfo ==
    [f \in VolFiles \cup StrayRawFiles |->
        [dest |-> destFilename(f.dir, f.name), jpg |-> IsJpg(f.name),
         mp4 |-> IsMp4(f.name), sidecar |-> IsSidecar(f.name),
         rawName |-> RawName(Stem(f.name))]]

(***************************************************************************)
(* The photo library.  lib[s] is the top level of session s: a function    *)
(* from stored name to content, "full" for a verbatim copy and "part" for  *)
(* what an interrupted io.Copy leaves.  sel[s] is s/selected, raw[s] is    *)
(* s/selected/raw, thumbs maps <<session, name>> to a cached thumbnail.    *)
(* Sessions are named by the second they were created in.                  *)
(***************************************************************************)
Put(f, k, v) == [x \in DOMAIN f \cup {k} |-> IF x = k THEN v ELSE f[x]]

Drop(f, ks) == [x \in DOMAIN f \ ks |-> f[x]]

Empty == [x \in {} |-> "full"]

\* the index as a walk that stops after the first session would build it
buildImportedFilesSetFirstOnly(L) ==
    IF DOMAIN L = {} THEN {}
    ELSE DOMAIN L[CHOOSE s \in DOMAIN L : \A t \in DOMAIN L : s <= t]

\* the names of the files at the top level of every session
buildImportedFilesSet(L) == UNION {DOMAIN L[s] : s \in DOMAIN L}

(***************************************************************************)
(* importFromUSBHandler.                                                   *)
(***************************************************************************)
\* the filters without the test for "._" resource-fork files
ClassifyKeepsSidecars(f, since, skip, videos, index) ==
    IF f.isDir THEN "ignore"
    ELSE IF ~NameInfo[f].jpg /\ (~NameInfo[f].mp4 \/ ~videos) THEN "ignore"
    ELSE IF since # 0 /\ f.mtime < DayStart(since) THEN "ignore"
    ELSE IF skip /\ NameInfo[f].dest \in index THEN "dup"
    ELSE "try"

\* the filters with a cutoff that also drops a file dated exactly at it
ClassifyExclusiveCutoff(f, since, skip, videos, index) ==
    IF f.isDir \/ NameInfo[f].sidecar THEN "ignore"
    ELSE IF ~NameInfo[f].jpg /\ (~NameInfo[f].mp4 \/ ~videos) THEN "ignore"
    ELSE IF since # 0 /\ f.mtime <= DayStart(since) THEN "ignore"
    ELSE IF skip /\ NameInfo[f].dest \in index THEN "dup"
    ELSE "try"

\* What the filters of the loop do with one directory entry: "ignore" it,
\* count it as a "dup", or "try" to copy it.
Classify(f, since, skip, videos, index) ==
    IF f.isDir \/ NameInfo[f].sidecar THEN "ignore"
    ELSE IF ~NameInfo[f].jpg /\ (~NameInfo[f].mp4 \/ ~videos) THEN "ignore"
    ELSE IF since # 0 /\ f.mtime < DayStart(since) THEN "ignore"
    ELSE IF skip /\ NameInfo[f].dest \in index THEN "dup"
    ELSE "try"

\* every entry of every source folder that can be read, tagged with its
\* folder; rd holds the folders whose ioutil.ReadDir fails
allFiles(rd) ==
    LET dirs == findCanonDirectories
        RECURSIVE Gather(_)
        Gather(i) == IF i > Len(dirs) THEN <<>>
                     ELSE IF dirs[i] \in rd THEN Gather(i + 1)
                     ELSE ReadDir(vol, dirs[i]) \o Gather(i + 1)
    IN Gather(1)

\* The faults a copy can meet: none, os.Open fails, os.Create fails, io.Copy
\* fails partway.
Faults == {"none", "open", "create", "copy"}

NoFaults == [x \in {} |-> "none"]

\* One pass of the loop over allFiles, from entry i on.  st carries the library,
\* destinationDirCreated, the counters and copiedFiles; abort is the early
\* return after a failed MkdirAll.  P holds the request, the destination, the
\* duplicate index and the faults of this call: P.mk says MkdirAll fails,
\* P.io maps stored names to the fault their copy meets.
RECURSIVE importLoop(_, _, _, _)
importLoop(files, i, st, P) ==
    IF i > Len(files) \/ st.abort THEN st
    ELSE
      LET f == files[i]
          class == Classify(f, P.since, P.skip, P.videos, P.index)
          dest == NameInfo[f].dest
          needDir == ~st.created
          st1 == IF needDir
                 THEN [st EXCEPT !.created = TRUE,
                                 !.L = IF P.dest \in DOMAIN st.L THEN st.L
                                       ELSE Put(st.L, P.dest, Empty)]
                 ELSE st
          fault == IF dest \in DOMAIN P.io THEN P.io[dest] ELSE "none"
      IN IF class = "ignore" THEN importLoop(files, i + 1, st, P)
         ELSE IF class = "dup"
           THEN importLoop(files, i + 1, [st EXCEPT !.skipped = st.skipped + 1], P)
         ELSE IF needDir /\ P.mk /\ P.dest \notin DOMAIN st.L
           THEN [st EXCEPT !.abort = TRUE]
         ELSE IF dest \in DOMAIN st1.L[P.dest]
           THEN importLoop(files, i + 1, st1, P)
         ELSE IF fault \in {"open", "create"}
           THEN importLoop(files, i + 1, [st1 EXCEPT !.failed = st1.failed \cup {dest}], P)
         ELSE IF fault = "copy"
           THEN importLoop(files, i + 1,
                    [st1 EXCEPT !.failed = st1.failed \cup {dest},
                                !.L = Put(st1.L, P.dest, Put(st1.L[P.dest], dest, "part"))], P)
         ELSE importLoop(files, i + 1,
                    [st1 EXCEPT !.copied = st1.copied + 1,
                                !.copiedFiles = IF NameInfo[f].jpg
                                                THEN Append(st1.copiedFiles, dest)
                                                ELSE st1.copiedFiles,
                                !.L = Put(st1.L, P.dest, Put(st1.L[P.dest], dest, "full"))], P)

\* What an import call answers and logs: the status, the kind of message, the
\* two counts the message is built from, new_directory, and from the log the
\* source folders that could not be read and the stored names whose copy failed.
ImportResponse(status, msg, copied, skipped, newdir, log) ==
    [op |-> "import", status |-> status, msg |-> msg, copied |-> copied,
     skipped |-> skipped, newdir |-> newdir, log |-> log]

\* The handler on request r = [since, skip, target, videos] (target 0 is the
\* empty string): the library it leaves, its response, and the photos it hands
\* to preGenerateThumbnails in the background.
importFromUSBHandler(r, rd, mk, io) ==
    LET isNewBatch == r.target = 0
        files == allFiles(rd)
        P == [since |-> r.since, skip |-> r.skip, videos |-> r.videos,
              dest |-> IF isNewBatch THEN now ELSE r.target,
              index |-> IF r.skip THEN buildImportedFilesSet(lib) ELSE {},
              mk |-> mk, io |-> io]
        st0 == [L |-> lib, created |-> ~isNewBatch, copied |-> 0, skipped |-> 0,
                copiedFiles |-> <<>>, failed |-> {}, abort |-> FALSE]
        st == importLoop(files, 1, st0, P)
        unread == {d \in rd : d \in volDirs}
        Log(failed) == [unread |-> unread, failed |-> failed]
        NoLog == [unread |-> {}, failed |-> {}]
        Error(status, msg, log) ==
            [lib |-> lib, resp |-> ImportResponse(status, msg, 0, 0, 0, log),
             dirName |-> P.dest, pregen |-> <<>>]
    IN IF r.since = -1 THEN Error(400, "invalid_date", NoLog)
       ELSE IF ~findUSBMountPoint THEN Error(404, "no_usb", NoLog)
       ELSE IF ~isNewBatch /\ r.target \notin DOMAIN lib THEN Error(400, "no_target", NoLog)
       ELSE IF Len(files) = 0 THEN Error(404, "no_files_in_canon", Log({}))
       ELSE IF st.abort THEN Error(500, "mkdir_failed", Log(st.failed))
       ELSE IF st.copied = 0
         THEN [lib |-> st.L, dirName |-> P.dest, pregen |-> <<>>,
               resp |-> ImportResponse(200,
                            IF r.since # 0 THEN "no_new_since"
                            ELSE IF st.skipped > 0 THEN "all_imported"
                            ELSE "no_files", 0, st.skipped, 0, Log(st.failed))]
       ELSE [lib |-> st.L, dirName |-> P.dest, pregen |-> st.copiedFiles,
             resp |-> ImportResponse(200, "copied", st.copied, st.skipped,
                                     IF isNewBatch THEN P.dest ELSE 0, Log(st.failed))]

\* the stored names whose copy an import of request r attempts, and so the
\* places where a fault can strike
CopySites(r) ==
    LET dest == IF r.target = 0 THEN now ELSE r.target
        index == IF r.skip THEN buildImportedFilesSet(lib) ELSE {}
        present == IF dest \in DOMAIN lib THEN DOMAIN lib[dest] ELSE {}
    IN IF r.since = -1 \/ (r.target # 0 /\ r.target \notin DOMAIN lib) \/ ~findUSBMountPoint
       THEN {}
       ELSE {NameInfo[f].dest : f \in {g \in vol :
                Classify(g, r.since, r.skip, r.videos, index) = "try"}} \ present

\* what a request is about, beyond the handler it calls
Target(r) == IF r.op = "thumbnail" THEN <<r.dir, r.file>> ELSE <<>>

\* The last response.  seq alternates from one handler call to the next, again
\* says that the call before it was the same request (the same handler, with
\* the same form or for the same file), and a change of the form forgets the
\* response.
Answer(r) ==
    [seq |-> 1 - resp.seq,
     again |-> resp.r.op = r.op /\ Target(resp.r) = Target(r),
     r |-> r]

\* the channel entries preGenerateThumbnails(directory, photos) hands to its
\* workers
Jobs(directory, photos) == {<<directory, photos[i]>> : i \in 1..Len(photos)}

ImportFromUSB(rd, mk, io) ==
    LET out == importFromUSBHandler(req, rd, mk, io)
    IN /\ lib' = out.lib
       /\ resp' = Answer(out.resp)
       /\ pool' = pool \cup Jobs(out.dirName, out.pregen)
       /\ UNCHANGED <<now, volDirs, vol, sel, raw, thumbs, req, codec, ui, calls, routines, run>>

(***************************************************************************)
(* The client's import form (App.js): the since date, the three check      *)
(* boxes and the current directory make the body of the next import call.  *)
(***************************************************************************)
SetRequest(r) ==
    /\ r # req
    /\ req' = r
    /\ resp' = [resp EXCEPT !.again = FALSE, !.r = [op |-> "none", status |-> 0]]
    /\ UNCHANGED <<now, volDirs, vol, lib, sel, raw, thumbs, codec, pool, ui, calls, routines, run>>

\* one control of the form changes
FormChanges ==
    {r \in [since : Sinces, skip : BOOLEAN, target : 0..MaxTime, videos : BOOLEAN] :
        Cardinality({k \in {"since", "skip", "target", "videos"} : r[k] # req[k]}) = 1}

(***************************************************************************)
(* deleteImportedHandler.                                                  *)
(***************************************************************************)
\* One pass over the listing of one source folder, from entry i on.  st carries
\* the card's files and the counters; rmfail holds the entries whose os.Remove
\* fails with an error other than not-exist.
RECURSIVE deleteLoop(_, _, _, _, _)
deleteLoop(files, i, st, importedFiles, rmfail) ==
    IF i > Len(files) THEN st
    ELSE
      LET f == files[i]
          isJpg == NameInfo[f].jpg
          rawFiles == {g \in st.V : g.dir = f.dir /\ g.name = NameInfo[f].rawName /\ ~g.isDir}
      IN IF f.isDir \/ NameInfo[f].sidecar \/ (~isJpg /\ ~NameInfo[f].mp4)
            \/ NameInfo[f].dest \notin importedFiles
         THEN deleteLoop(files, i + 1, st, importedFiles, rmfail)
         ELSE IF f \in rmfail
           THEN deleteLoop(files, i + 1, [st EXCEPT !.errors = st.errors + 1],
                           importedFiles, rmfail)
         ELSE IF f \notin st.V
           THEN deleteLoop(files, i + 1, [st EXCEPT !.notFound = st.notFound + 1],
                           importedFiles, rmfail)
         ELSE deleteLoop(files, i + 1,
                  [st EXCEPT !.deleted = st.deleted + 1,
                             !.deletedRaw = IF isJpg /\ rawFiles # {}
                                            THEN st.deletedRaw + 1 ELSE st.deletedRaw,
                             !.V = IF isJpg THEN (st.V \ {f}) \ rawFiles ELSE st.V \ {f}],
                  importedFiles, rmfail)

DeleteResponse(status, st) ==
    [op |-> "deleteImported", status |-> status, deleted |-> st.deleted,
     deletedRaw |-> st.deletedRaw, notFound |-> st.notFound, errors |-> st.errors]

\* the handler: the card it leaves and its response
deleteImportedHandler(rmfail) ==
    LET importedFiles == buildImportedFilesSet(lib)
        dirs == findCanonDirectories
        st0 == [V |-> vol, deleted |-> 0, deletedRaw |-> 0, notFound |-> 0, errors |-> 0]
        RECURSIVE Folders(_, _)
        Folders(k, st) == IF k > Len(dirs) THEN st
                          ELSE Folders(k + 1, deleteLoop(ReadDir(st.V, dirs[k]), 1, st,
                                                         importedFiles, rmfail))
        st == Folders(1, st0)
    IN IF ~findUSBMountPoint
       THEN [vol |-> vol, resp |-> DeleteResponse(404, st0)]
       ELSE [vol |-> st.V, resp |-> DeleteResponse(200, st)]

\* the card files deleteImported tries to remove
RemoveSites ==
    {f \in vol : ~f.isDir /\ NameInfo[f].dest \in buildImportedFilesSet(lib)}

DeleteImported(rmfail) ==
    LET out == deleteImportedHandler(rmfail)
    IN /\ vol' = out.vol
       /\ resp' = Answer(out.resp)
       /\ UNCHANGED <<now, volDirs, lib, sel, raw, thumbs, req, codec, pool, ui, calls, routines, run>>

(***************************************************************************)
(* The clock: session names are time.Now() to the second.                  *)
(***************************************************************************)
Tick ==
    /\ now < MaxTime
    /\ now' = now + 1
    /\ UNCHANGED <<volDirs, vol, lib, sel, raw, thumbs, req, resp, codec, pool, ui, calls,
                   routines, run>>

(***************************************************************************)
(* Initial states: the server has started on an empty library, a card is   *)
(* (or is not) in the reader, the import form shows its defaults.          *)
(***************************************************************************)
NoResp == [seq |-> 0, again |-> FALSE, r |-> [op |-> "none", status |-> 0]]

NoCodec == [phase |-> "idle"]

\* the goroutines that serve import requests, none of them in its loop
Calls == {1, 2}

NoCalls == [c \in Calls |-> [pc |-> "idle"]]

\* the page as App() first renders it: the useState defaults
NoPage ==
    [photos |-> <<>>, currentIndex |-> 0, isImporting |-> FALSE,
     currentDirectory |-> 0, inFlight |-> FALSE, loaded |-> TRUE,
     last |-> "render", seq |-> 0,
     selectedPhotos |-> {}, savedPhotos |-> {}, fetched |-> TRUE,
     saves |-> {}, chosen |-> {}]

\* no run of preGenerateThumbnails is followed step by step
NoRun == [state |-> "none"]

\* useState('') / useState(true) / useState(false) / useState(false)
FormDefaults == [since |-> 0, skip |-> TRUE, target |-> 0, videos |-> FALSE]

InitFiles ==
    /\ now = 1
    /\ \E c \in Cards : volDirs = c.dirs /\ vol = c.files
    /\ lib = [s \in {} |-> Empty]
    /\ sel = [s \in {} |-> Empty]
    /\ raw = [s \in {} |-> Empty]
    /\ thumbs = [k \in {} |-> "full"]
    /\ req = FormDefaults
    /\ resp = NoResp
    /\ codec = NoCodec
    /\ pool = {}
    /\ ui = NoPage
    /\ calls = NoCalls
    /\ routines = {}
    /\ run = NoRun

Init == InitFiles

\* an import that meets no I/O fault
ImportStep == ImportFromUSB({}, FALSE, NoFaults)

FormStep == \E r \in FormChanges : SetRequest(r)

Next == ImportStep \/ FormStep \/ Tick

\* the library, the card and the import form, with every file operation succeeding
Spec == Init /\ [][Next]_vars

\* an import whose MkdirAll or copies may fail
ImportFaultyStep ==
    \E rd \in SUBSET volDirs : \E mk \in BOOLEAN : \E io \in [CopySites(req) -> Faults] :
        ImportFromUSB(rd, mk, io)

DeleteImportedStep == \E rmfail \in SUBSET RemoveSites : DeleteImported(rmfail)

\* the form keeps its default date and video settings
FormFaultsStep == \E r \in FormChanges : r.since = 0 /\ ~r.videos /\ SetRequest(r)

NextFaults == ImportFaultyStep \/ DeleteImportedStep \/ FormFaultsStep \/ Tick

\* the same, with I/O faults and with deletion from the card
SpecFaults == Init /\ [][NextFaults]_vars

(***************************************************************************)
(* saveSelectedPhotosHandler and the raw export.                           *)
(***************************************************************************)
\* the names a library directory can hold, in the order ioutil.ReadDir lists them
StoredOrder == [i \in 1..Len(VolUniverse) |-> NameInfo[VolUniverse[i]].dest]

ReadDirNames(S) == SelectSeq(StoredOrder, LAMBDA n : n \in S)

\* the test for JPEGs of the export handlers
IsJpeg(name) ==
    \/ HasSuffix(ToLower(name), <<".", "j", "p", "g">>)
    \/ HasSuffix(ToLower(name), <<".", "j", "p", "e", "g">>)

\* a request whose directory field is missing or "" (sessions are 1..MaxTime)
NoDirectory == 0

\* the files of directory d of tree T, none when there is no such directory
Dir(T, d) == IF d \in DOMAIN T THEN T[d] ELSE Empty

MkdirAll(T, d) == IF d \in DOMAIN T THEN T ELSE Put(T, d, Empty)

\* the request check that tests the directory only
saveRequestValidDirectoryOnly(d, files) == d # NoDirectory

\* len(data.SelectedFiles) == 0 || data.Directory == "" is a bad request
saveRequestValid(d, files) == files # {} /\ d # NoDirectory

\* the handler on (directory, selected_files): the library and the selected
\* folders it leaves, and its response.  io maps names to the fault their copy
\* meets; a file that is not in the session fails to open.  The response
\* record also keeps the request's files and the names the handler logged as
\* failed.
saveSelectedPhotosHandler(d, files, io) ==
    LET names == ReadDirNames(files)
        src == Dir(lib, d)
        RECURSIVE Copy(_, _)
        Copy(i, st) ==
            IF i > Len(names) THEN st
            ELSE LET n == names[i]
                     fault == IF n \in DOMAIN io THEN io[n] ELSE "none"
                 IN IF n \notin DOMAIN src \/ fault \in {"open", "create"}
                    THEN Copy(i + 1, [st EXCEPT !.failed = st.failed \cup {n}])
                    ELSE IF fault = "copy"
                      THEN Copy(i + 1, [S |-> Put(st.S, n, "part"),
                                        failed |-> st.failed \cup {n}])
                    ELSE Copy(i + 1, [st EXCEPT !.S = Put(st.S, n, src[n])])
        st == Copy(1, [S |-> Dir(sel, d), failed |-> {}])
    IN IF ~saveRequestValid(d, files)
       THEN [lib |-> lib, sel |-> sel,
             resp |-> [op |-> "save", status |-> 400, dir |-> d, reported |-> 0,
                       files |-> files, failed |-> {}]]
       ELSE [lib |-> MkdirAll(lib, d),
             sel |-> Put(sel, d, st.S),
             resp |-> [op |-> "save", status |-> 200, dir |-> d,
                       reported |-> Cardinality(files),
                       files |-> files, failed |-> st.failed]]

\* the photos the page lists for a session (getPhotosHandler)
Photos(d) == {n \in DOMAIN Dir(lib, d) : IsJpeg(n) /\ ~IsSidecar(n)}

SaveSelected(d, files, io) ==
    LET out == saveSelectedPhotosHandler(d, files, io)
    IN /\ lib' = out.lib
       /\ sel' = out.sel
       /\ resp' = Answer(out.resp)
       /\ UNCHANGED <<now, volDirs, vol, raw, thumbs, req, codec, pool, ui, calls, routines, run>>

CANON == <<"C", "A", "N", "O", "N">>

\* the search that scans the source folders only, whatever the prefix
findRawFallbackOnly(prefix, rawFileName) ==
    LET at(d) == {f \in vol : f.dir = d /\ f.name = rawFileName}
        dirs == findCanonDirectories
        RECURSIVE Fallback(_)
        Fallback(i) == IF i > Len(dirs) THEN {}
                       ELSE IF at(dirs[i]) # {} THEN at(dirs[i])
                       ELSE Fallback(i + 1)
    IN Fallback(1)

\* The search for the raw file of one JPEG: the folder its prefix names, the
\* same folder spelled in lower case, then every source folder in order.  The
\* set holds the file found, and is empty when none is.
findRaw(prefix, rawFileName) ==
    LET at(d) == {f \in vol : f.dir = d /\ f.name = rawFileName}
        dirs == findCanonDirectories
        RECURSIVE Fallback(_)
        Fallback(i) == IF i > Len(dirs) THEN {}
                       ELSE IF at(dirs[i]) # {} THEN at(dirs[i])
                       ELSE Fallback(i + 1)
    IN IF prefix # <<>> /\ at(prefix \o CANON) # {} THEN at(prefix \o CANON)
       ELSE IF prefix # <<>> /\ at(prefix \o ToLower(CANON)) # {}
         THEN at(prefix \o ToLower(CANON))
       ELSE Fallback(1)

\* rawDestFileName without the prefix re-applied
rawDestFileNameStripped(baseName) == RawName(splitPrefixedFilename(baseName)[2])

\* the name of the exported copy
rawDestFileName(baseName) == RawName(baseName)

\* a verbatim or truncated copy of card file f
RawCopy(f, whole) == [dir |-> f.dir, name |-> f.name, whole |-> whole]

\* the batch loop with a break where the not-found branch has its continue
RECURSIVE exportLoopStopsAtMissing(_, _, _, _)
exportLoopStopsAtMissing(jpegs, i, st, io) ==
    IF i > Len(jpegs) THEN st
    ELSE
      LET jpegFile == jpegs[i]
          baseName == Stem(jpegFile)
          split == splitPrefixedFilename(baseName)
          found == findRaw(split[1], RawName(split[2]))
          dest == rawDestFileName(baseName)
          fault == IF jpegFile \in DOMAIN io THEN io[jpegFile] ELSE "none"
      IN IF dest \in DOMAIN st.R
           THEN exportLoopStopsAtMissing(jpegs, i + 1,
                    [st EXCEPT !.skipped = st.skipped + 1], io)
         ELSE IF found = {} \/ fault = "open"
           THEN [st EXCEPT !.notFound = st.notFound + 1]
         ELSE IF fault = "create"
           THEN exportLoopStopsAtMissing(jpegs, i + 1, [st EXCEPT !.failed = st.failed \cup {jpegFile}], io)
         ELSE IF fault = "copy"
           THEN exportLoopStopsAtMissing(jpegs, i + 1,
                    [st EXCEPT !.failed = st.failed \cup {jpegFile},
                               !.R = Put(st.R, dest, RawCopy(CHOOSE f \in found : TRUE, FALSE))], io)
         ELSE exportLoopStopsAtMissing(jpegs, i + 1,
                    [st EXCEPT !.copied = st.copied + 1,
                               !.R = Put(st.R, dest, RawCopy(CHOOSE f \in found : TRUE, TRUE))], io)

\* One pass of the batch loop over jpegFiles, from entry i on.  st carries the
\* raw folder, the three counters and failed, the JPEGs for which a "Failed to"
\* line was logged; io maps JPEG names to the fault the copy of their raw file
\* meets.
RECURSIVE exportLoop(_, _, _, _)
exportLoop(jpegs, i, st, io) ==
    IF i > Len(jpegs) THEN st
    ELSE
      LET jpegFile == jpegs[i]
          baseName == Stem(jpegFile)
          split == splitPrefixedFilename(baseName)
          found == findRaw(split[1], RawName(split[2]))
          dest == rawDestFileName(baseName)
          fault == IF jpegFile \in DOMAIN io THEN io[jpegFile] ELSE "none"
      IN IF dest \in DOMAIN st.R
           THEN exportLoop(jpegs, i + 1, [st EXCEPT !.skipped = st.skipped + 1], io)
         ELSE IF found = {}
           THEN exportLoop(jpegs, i + 1, [st EXCEPT !.notFound = st.notFound + 1], io)
         ELSE IF fault = "open"
           THEN exportLoop(jpegs, i + 1,
                    [st EXCEPT !.notFound = st.notFound + 1,
                               !.failed = st.failed \cup {jpegFile}], io)
         ELSE IF fault = "create"
           THEN exportLoop(jpegs, i + 1, [st EXCEPT !.failed = st.failed \cup {jpegFile}], io)
         ELSE IF fault = "copy"
           THEN exportLoop(jpegs, i + 1,
                    [st EXCEPT !.failed = st.failed \cup {jpegFile},
                               !.R = Put(st.R, dest, RawCopy(CHOOSE f \in found : TRUE, FALSE))], io)
         ELSE exportLoop(jpegs, i + 1,
                    [st EXCEPT !.copied = st.copied + 1,
                               !.R = Put(st.R, dest, RawCopy(CHOOSE f \in found : TRUE, TRUE))], io)

ExportResponse(status, d, st, total) ==
    [op |-> "exportRaw", status |-> status, dir |-> d, copied |-> st.copied,
     skipped |-> st.skipped, notFound |-> st.notFound, total |-> total,
     failed |-> st.failed]

\* the batch handler on directory d: the raw folders it leaves and its response
exportRawFilesHandler(d, mk, io) ==
    LET jpegFiles == ReadDirNames({n \in DOMAIN Dir(sel, d) : IsJpeg(n)})
        st0 == [R |-> Dir(raw, d), copied |-> 0, skipped |-> 0, notFound |-> 0, failed |-> {}]
        st == exportLoop(jpegFiles, 1, st0, io)
        Error(status) == [raw |-> raw, resp |-> ExportResponse(status, d, st0, 0)]
    IN IF d = NoDirectory THEN Error(400)
       ELSE IF ~findUSBMountPoint THEN Error(404)
       ELSE IF d \notin DOMAIN sel THEN Error(404)
       ELSE IF Len(jpegFiles) = 0 THEN Error(404)
       ELSE IF mk /\ d \notin DOMAIN raw THEN Error(500)
       ELSE [raw |-> Put(raw, d, st.R),
             resp |-> ExportResponse(200, d, st, Len(jpegFiles))]

ExportRawFiles(d, mk, io) ==
    LET out == exportRawFilesHandler(d, mk, io)
    IN /\ raw' = out.raw
       /\ resp' = Answer(out.resp)
       /\ UNCHANGED <<now, volDirs, vol, lib, sel, thumbs, req, codec, pool, ui, calls, routines, run>>

SingleResponse(status, d, filename, result) ==
    [op |-> "exportRawSingle", status |-> status, dir |-> d, file |-> filename,
     result |-> result]

\* the single-file handler on (directory, filename): the trees it leaves (its
\* MkdirAll creates the session and selected folders with the raw folder) and
\* its response.  fault is the fault the copy meets.
exportRawSingleFileHandler(d, filename, mk, fault) ==
    LET baseName == Stem(filename)
        split == splitPrefixedFilename(baseName)
        found == findRaw(split[1], RawName(split[2]))
        dest == rawDestFileName(baseName)
        made == [lib |-> MkdirAll(lib, d), sel |-> MkdirAll(sel, d), raw |-> MkdirAll(raw, d)]
        Reply(trees, status, result) ==
            [lib |-> trees.lib, sel |-> trees.sel, raw |-> trees.raw,
             resp |-> SingleResponse(status, d, filename, result)]
        same == [lib |-> lib, sel |-> sel, raw |-> raw]
    IN IF d = NoDirectory \/ filename = <<>> THEN Reply(same, 400, "none")
       ELSE IF ~findUSBMountPoint THEN Reply(same, 404, "none")
       ELSE IF mk /\ d \notin DOMAIN raw THEN Reply(same, 500, "none")
       ELSE IF found = {} THEN Reply(made, 404, "none")
       ELSE IF dest \in DOMAIN made.raw[d] THEN Reply(made, 200, "skipped")
       ELSE IF fault \in {"open", "create"} THEN Reply(made, 500, "none")
       ELSE IF fault = "copy"
         THEN Reply([made EXCEPT !.raw = Put(made.raw, d,
                        Put(made.raw[d], dest, RawCopy(CHOOSE f \in found : TRUE, FALSE)))],
                    500, "none")
       ELSE Reply([made EXCEPT !.raw = Put(made.raw, d,
                        Put(made.raw[d], dest, RawCopy(CHOOSE f \in found : TRUE, TRUE)))],
                  200, "copied")

ExportRawSingleFile(d, filename, mk, fault) ==
    LET out == exportRawSingleFileHandler(d, filename, mk, fault)
    IN /\ lib' = out.lib
       /\ sel' = out.sel
       /\ raw' = out.raw
       /\ resp' = Answer(out.resp)
       /\ UNCHANGED <<now, volDirs, vol, thumbs, req, codec, pool, ui, calls, routines, run>>

\* the cards of the raw export: a photo with its raw file in the first folder,
\* and in the second folder a photo of the same base name or a photo that has
\* no raw file anywhere
RawCards ==
    { [dirs |-> {D100, D101},
       files |-> {f \in VolFiles : f.name \in {<<"A", ".", "C", "R", "3">>,
                                               <<"A", ".", "J", "P", "G">>, last}}] :
        last \in {<<"A", ".", "j", "p", "g">>, <<"B", ".", "J", "P", "G">>} }

InitRaw ==
    /\ now = 1
    /\ \E c \in RawCards : volDirs = c.dirs /\ vol = c.files
    /\ lib = [s \in {} |-> Empty]
    /\ sel = [s \in {} |-> Empty]
    /\ raw = [s \in {} |-> Empty]
    /\ thumbs = [k \in {} |-> "full"]
    /\ req = FormDefaults
    /\ resp = NoResp
    /\ codec = NoCodec
    /\ pool = {}
    /\ ui = NoPage
    /\ calls = NoCalls
    /\ routines = {}
    /\ run = NoRun

SaveStep ==
    \E d \in DOMAIN lib : \E files \in SUBSET Photos(d) : SaveSelected(d, files, NoFaults)

ExportStep == \E d \in 1..MaxTime : ExportRawFiles(d, FALSE, NoFaults)

ExportSingleStep ==
    \E d \in DOMAIN lib : \E filename \in Photos(d) :
        ExportRawSingleFile(d, filename, FALSE, "none")

DeleteFromCardStep == DeleteImported({})

NextRaw ==
    ImportStep \/ SaveStep \/ ExportStep \/ ExportSingleStep \/ DeleteFromCardStep

\* import, selection, raw export and deletion from the card, with no I/O fault
SpecRaw == InitRaw /\ [][NextRaw]_vars

(***************************************************************************)
(* Thumbnails and deletePhotosHandler.  thumbs maps <<session, name>> to   *)
(* the cached file: "full" for a complete thumbnail, "part" for what an    *)
(* interrupted jpeg.Encode leaves.                                         *)
(***************************************************************************)
\* image.Decode succeeds: only the JPEG decoder is registered, and a truncated
\* copy does not decode
Decodes(filename, content) == IsJpeg(filename) /\ content = "full"

\* the faults generateThumbnail can meet
ThumbFaults == {"none", "open", "decode", "mkdir", "create", "encode"}

\* generateThumbnail(directory, filename): the cache it leaves, whether it
\* returns an error, and whether it ran image.Decode
generateThumbnail(d, filename, fault) ==
    LET src == Dir(lib, d)
        Fail(decoded) == [thumbs |-> thumbs, err |-> TRUE, decoded |-> decoded]
    IN IF <<d, filename>> \in DOMAIN thumbs
       THEN [thumbs |-> thumbs, err |-> FALSE, decoded |-> FALSE]
       ELSE IF filename \notin DOMAIN src \/ fault = "open" THEN Fail(FALSE)
       ELSE IF ~Decodes(filename, src[filename]) \/ fault = "decode" THEN Fail(TRUE)
       ELSE IF fault \in {"mkdir", "create"} THEN Fail(TRUE)
       ELSE IF fault = "encode"
         THEN [thumbs |-> Put(thumbs, <<d, filename>>, "part"),
               err |-> TRUE, decoded |-> TRUE]
       ELSE [thumbs |-> Put(thumbs, <<d, filename>>, "full"),
             err |-> FALSE, decoded |-> TRUE]

\* The response to GET /thumbnail/d/filename: body is the file served ("none"
\* with an error status); decoded records whether the call ran image.Decode.
ThumbResponse(status, d, filename, body, decoded) ==
    [op |-> "thumbnail", status |-> status, dir |-> d, file |-> filename,
     body |-> body, decoded |-> decoded]

\* the handler without its cache lookup: every request decodes and encodes anew
serveThumbnailHandlerAlwaysGenerates(d, filename, fault) ==
    LET src == Dir(lib, d)
    IN IF filename \notin DOMAIN src
       THEN [thumbs |-> thumbs, resp |-> ThumbResponse(500, d, filename, "none", FALSE)]
       ELSE IF ~Decodes(filename, src[filename])
         THEN [thumbs |-> thumbs, resp |-> ThumbResponse(500, d, filename, "none", TRUE)]
       ELSE [thumbs |-> Put(thumbs, <<d, filename>>, "full"),
             resp |-> ThumbResponse(200, d, filename, "full", TRUE)]

\* GET /thumbnail/d/filename: the cache it leaves and its response
serveThumbnailHandler(d, filename, fault) ==
    LET gen == generateThumbnail(d, filename, fault)
    IN IF <<d, filename>> \in DOMAIN thumbs
       THEN [thumbs |-> thumbs,
             resp |-> ThumbResponse(200, d, filename, thumbs[<<d, filename>>], FALSE)]
       ELSE IF gen.err
         THEN [thumbs |-> gen.thumbs,
               resp |-> ThumbResponse(500, d, filename, "none", gen.decoded)]
       ELSE IF <<d, filename>> \in DOMAIN gen.thumbs
         THEN [thumbs |-> gen.thumbs,
               resp |-> ThumbResponse(200, d, filename, gen.thumbs[<<d, filename>>],
                                      gen.decoded)]
       ELSE [thumbs |-> gen.thumbs,
             resp |-> ThumbResponse(404, d, filename, "none", gen.decoded)]

ServeThumbnail(d, filename, fault) ==
    LET out == serveThumbnailHandler(d, filename, fault)
    IN /\ thumbs' = out.thumbs
       /\ resp' = Answer(out.resp)
       /\ UNCHANGED <<now, volDirs, vol, lib, sel, raw, req, codec, pool, ui, calls, routines, run>>

\* strings.Contains(filename, "..") || Contains("/") || Contains("\\")
IsTraversal(filename) ==
    \/ \E i \in 1..Len(filename) : filename[i] \in {"/", "\\"}
    \/ \E i \in 1..(Len(filename) - 1) : filename[i] = "." /\ filename[i + 1] = "."

\* the delete loop counting a missing thumbnail as an error
RECURSIVE deletePhotosLoopStrict(_, _, _, _, _)
deletePhotosLoopStrict(d, files, i, st, rm) ==
    IF i > Len(files) THEN st
    ELSE
      LET filename == files[i]
          key == <<d, filename>>
      IN IF IsTraversal(filename)
           THEN deletePhotosLoopStrict(d, files, i + 1, [st EXCEPT !.errors = st.errors + 1], rm)
         ELSE IF filename \in DOMAIN st.L /\ filename \in rm.photo
           THEN deletePhotosLoopStrict(d, files, i + 1, [st EXCEPT !.errors = st.errors + 1], rm)
         ELSE IF filename \notin DOMAIN st.L
           THEN deletePhotosLoopStrict(d, files, i + 1,
                    [st EXCEPT !.notFound = st.notFound + 1], rm)
         ELSE deletePhotosLoopStrict(d, files, i + 1,
                  [st EXCEPT !.deleted = st.deleted + 1,
                             !.L = Drop(st.L, {filename}),
                             !.errors = IF key \in DOMAIN st.T THEN st.errors
                                        ELSE st.errors + 1,
                             !.T = IF filename \in rm.thumb THEN st.T
                                   ELSE Drop(st.T, {key}),
                             !.thumbsRemoved =
                                 IF key \in DOMAIN st.T /\ filename \notin rm.thumb
                                 THEN st.thumbsRemoved + 1 ELSE st.thumbsRemoved], rm)

\* One pass of the loop over data.Files, from entry i on.  st carries the
\* session's files, the cache and the counters (thumbsRemoved, which the
\* handler does not report, counts the thumbnails removed); rm.photo and
\* rm.thumb hold the names whose os.Remove fails with an error other than
\* not-exist.
RECURSIVE deletePhotosLoop(_, _, _, _, _)
deletePhotosLoop(d, files, i, st, rm) ==
    IF i > Len(files) THEN st
    ELSE
      LET filename == files[i]
          key == <<d, filename>>
      IN IF IsTraversal(filename)
           THEN deletePhotosLoop(d, files, i + 1, [st EXCEPT !.errors = st.errors + 1], rm)
         ELSE IF filename \in DOMAIN st.L /\ filename \in rm.photo
           THEN deletePhotosLoop(d, files, i + 1, [st EXCEPT !.errors = st.errors + 1], rm)
         ELSE IF filename \notin DOMAIN st.L
           THEN deletePhotosLoop(d, files, i + 1, [st EXCEPT !.notFound = st.notFound + 1], rm)
         ELSE deletePhotosLoop(d, files, i + 1,
                  [st EXCEPT !.deleted = st.deleted + 1,
                             !.L = Drop(st.L, {filename}),
                             !.T = IF filename \in rm.thumb THEN st.T
                                   ELSE Drop(st.T, {key}),
                             !.thumbsRemoved =
                                 IF key \in DOMAIN st.T /\ filename \notin rm.thumb
                                 THEN st.thumbsRemoved + 1 ELSE st.thumbsRemoved], rm)

\* the handler on (directory, files): the library and the cache it leaves, and
\* its response
deletePhotosHandler(d, files, rm) ==
    LET st0 == [L |-> Dir(lib, d), T |-> thumbs, deleted |-> 0, notFound |-> 0,
                errors |-> 0, thumbsRemoved |-> 0]
        st == deletePhotosLoop(d, files, 1, st0, rm)
        Reply(status, s) ==
            [op |-> "deletePhotos", status |-> status, dir |-> d, files |-> files,
             deleted |-> s.deleted, notFound |-> s.notFound, errors |-> s.errors,
             thumbsRemoved |-> s.thumbsRemoved]
    IN IF d = NoDirectory \/ Len(files) = 0
       THEN [lib |-> lib, thumbs |-> thumbs, resp |-> Reply(400, st0)]
       ELSE [lib |-> IF d \in DOMAIN lib THEN Put(lib, d, st.L) ELSE lib,
             thumbs |-> st.T, resp |-> Reply(200, st)]

\* os.Remove of the cache files keys: a routine that has created one of them
\* and not yet written it goes on writing to a file that has no name any more
unlink(keys) ==
    {[r EXCEPT !.unlinked = r.unlinked \/ (r.pc = "encode" /\ <<r.dir, r.file>> \in keys)] :
        r \in routines}

DeletePhotos(d, files, rm) ==
    LET out == deletePhotosHandler(d, files, rm)
    IN /\ lib' = out.lib
       /\ thumbs' = out.thumbs
       /\ resp' = Answer(out.resp)
       /\ routines' = unlink(DOMAIN thumbs \ DOMAIN out.thumbs)
       /\ UNCHANGED <<now, volDirs, vol, sel, raw, req, codec, pool, ui, calls, run>>

\* the card of the thumbnail runs: one folder with a photo, its raw file, a
\* video, a sidecar file and a subfolder
InitThumb ==
    /\ now = 1
    /\ volDirs = {D100} /\ vol = {f \in VolFiles : f.dir = D100}
    /\ lib = [s \in {} |-> Empty]
    /\ sel = [s \in {} |-> Empty]
    /\ raw = [s \in {} |-> Empty]
    /\ thumbs = [k \in {} |-> "full"]
    /\ req = FormDefaults
    /\ resp = NoResp
    /\ codec = NoCodec
    /\ pool = {}
    /\ ui = NoPage
    /\ calls = NoCalls
    /\ routines = {}
    /\ run = NoRun

\* the names a request can carry: those of the files an import can store
RequestNames == {NameInfo[f].dest : f \in {g \in VolFiles : ~g.isDir /\ g.dir = D100}}

\* the import-videos check box
FormVideosStep == SetRequest([req EXCEPT !.videos = ~req.videos])

ThumbnailStep ==
    \E d \in 1..MaxTime : \E filename \in RequestNames : ServeThumbnail(d, filename, "none")

NoRemoveFaults == [photo |-> {}, thumb |-> {}]

DeletePhotosStep ==
    \E d \in 1..MaxTime : \E files \in SUBSET RequestNames :
        DeletePhotos(d, ReadDirNames(files), NoRemoveFaults)

NextThumb == ImportStep \/ FormVideosStep \/ ThumbnailStep \/ DeletePhotosStep

\* import, thumbnails on demand and photo deletion, with no I/O fault
SpecThumb == InitThumb /\ [][NextThumb]_vars

(***************************************************************************)
(* The filename codec on its own: a folder name and a file name are        *)
(* encoded as the import does, and the stored name is decoded as the raw   *)
(* export does.                                                            *)
(***************************************************************************)
\* characters of the folder names and of the file names given to the codec
DirChars == {"1", "+", "C"}

BaseChars == {"1", "_", "A"}

Strings(chars, lo, hi) == UNION {[1..n -> chars] : n \in lo..hi}

InitCodec ==
    /\ now = 1
    /\ volDirs = {} /\ vol = {}
    /\ lib = [s \in {} |-> Empty]
    /\ sel = [s \in {} |-> Empty]
    /\ raw = [s \in {} |-> Empty]
    /\ thumbs = [k \in {} |-> "full"]
    /\ req = FormDefaults
    /\ resp = NoResp
    /\ codec = NoCodec
    /\ pool = {}
    /\ ui = NoPage
    /\ calls = NoCalls
    /\ routines = {}
    /\ run = NoRun

\* canonPrefix + "_" + file.Name() for an entry of some folder
Encode ==
    /\ codec.phase = "idle"
    /\ \E dir \in Strings(DirChars, 0, MaxDirLen), base \in Strings(BaseChars, 1, MaxBaseLen) :
          codec' = [phase |-> "encoded", dir |-> dir, base |-> base,
                    name |-> destFilename(dir, base)]
    /\ UNCHANGED <<now, volDirs, vol, lib, sel, raw, thumbs, req, resp, pool, ui, calls, routines, run>>

Decode ==
    /\ codec.phase = "encoded"
    /\ codec' = [phase |-> "decoded", dir |-> codec.dir, base |-> codec.base,
                 name |-> codec.name, out |-> splitPrefixedFilename(codec.name)]
    /\ UNCHANGED <<now, volDirs, vol, lib, sel, raw, thumbs, req, resp, pool, ui, calls, routines, run>>

NextCodec == Encode \/ Decode

SpecCodec == InitCodec /\ [][NextCodec]_vars

(***************************************************************************)
(* Properties.                                                             *)
(***************************************************************************)
\* the step is a call of handler op
IsCall(op) == resp'.seq # resp.seq /\ resp'.r.op = op

\* the files of the top level of the sessions of library L
Entries(L) == UNION {{<<s, n>> : n \in DOMAIN L[s]} : s \in DOMAIN L}

\* the destination session of the import the form asks for
Destination == IF req.target = 0 THEN now ELSE req.target

\* the card files an import of the current form is to copy: not a directory,
\* not a sidecar file, a .jpg (or a .mp4 when videos are asked for), not older
\* than the cutoff, not in the library when duplicates are skipped
Eligible ==
    {f \in vol :
        /\ ~f.isDir
        /\ ~HasPrefix(f.name, <<".", "_">>)
        /\ \/ HasSuffix(ToLower(f.name), <<".", "j", "p", "g">>)
           \/ req.videos /\ HasSuffix(ToLower(f.name), <<".", "m", "p", "4">>)
        /\ req.since > 0 => f.mtime >= DayStart(req.since)
        /\ req.skip => SubSeq(f.dir, 1, 3) \o <<"_">> \o f.name
                          \notin UNION {DOMAIN lib[s] : s \in DOMAIN lib}}

\* C1 as stated: a new-batch import that meets no I/O failure, from a card
\* holding N eligible files, copies exactly N files and creates exactly one
\* session directory, and none when N = 0.
C1_NewBatchCopiesAll ==
    [][IsCall("import") /\ req.target = 0 /\ req.since # -1 /\ findUSBMountPoint
         => /\ Cardinality(Entries(lib') \ Entries(lib)) = Cardinality(Eligible)
            /\ resp'.r.copied = Cardinality(Eligible)
            /\ Cardinality(DOMAIN lib' \ DOMAIN lib) = IF Eligible = {} THEN 0 ELSE 1]_vars

\* C1 amended: the same, when no session named by the current second exists
\* yet (the destination is empty).
C1_NewBatchCopiesAllIntoEmpty ==
    [][IsCall("import") /\ req.target = 0 /\ req.since # -1 /\ findUSBMountPoint
       /\ now \notin DOMAIN lib
         => /\ Cardinality(Entries(lib') \ Entries(lib)) = Cardinality(Eligible)
            /\ resp'.r.copied = Cardinality(Eligible)
            /\ Cardinality(DOMAIN lib' \ DOMAIN lib) = IF Eligible = {} THEN 0 ELSE 1]_vars

\* a new-batch import has answered that it copied two files into a new session
C1_Witness ==
    /\ resp.r.op = "import" /\ req.target = 0
    /\ resp.r.copied = 2 /\ resp.r.newdir \in DOMAIN lib
    /\ Cardinality(DOMAIN lib[resp.r.newdir]) = 2

Prefixed(f) == SubSeq(f.dir, 1, 3) \o <<"_">> \o f.name

\* the card files that an import of the current form would copy if there were
\* no cutoff: eligible but for their date, and not yet in the destination
OtherwiseEligible ==
    {f \in vol :
        /\ ~f.isDir
        /\ ~HasPrefix(f.name, <<".", "_">>)
        /\ \/ HasSuffix(ToLower(f.name), <<".", "j", "p", "g">>)
           \/ req.videos /\ HasSuffix(ToLower(f.name), <<".", "m", "p", "4">>)
        /\ req.skip => Prefixed(f) \notin UNION {DOMAIN lib[s] : s \in DOMAIN lib}
        /\ Destination \in DOMAIN lib => Prefixed(f) \notin DOMAIN lib[Destination]}

\* C3: a session directory an import call created holds at least one copied
\* file when the call returns, and a call that copied nothing created none.
C3_NoEmptySessionCreated ==
    [][IsCall("import")
         => /\ \A s \in DOMAIN lib' \ DOMAIN lib :
                 \E n \in DOMAIN lib'[s] : lib'[s][n] = "full"
            /\ resp'.r.copied = 0 => DOMAIN lib' = DOMAIN lib]_vars

\* C4: deleteImported removes from the card only files whose stored name is at
\* the top level of some session of the library.
C4_DeletesOnlyImported ==
    [][IsCall("deleteImported")
         => \A f \in vol \ vol' :
               Prefixed(f) \in UNION {DOMAIN lib[s] : s \in DOMAIN lib}]_vars

Take(s, n) == SubSeq(s, 1, IF Len(s) < n THEN Len(s) ELSE n)

\* p is three ASCII digits
IsDigits3(p) == Len(p) = 3 /\ \A i \in 1..3 : p[i] \in Digits

\* C10: for a three-digit prefix p and a base name b that does not itself
\* start with three digits and an underscore, decoding p + "_" + b returns
\* exactly (p, b).
C10_CodecRoundTrip ==
    codec.phase = "decoded"
      => \A p \in {Take(codec.dir, 3)} :
           IsDigits3(p)
           /\ ~(Len(codec.base) >= 4 /\ IsDigits3(Take(codec.base, 3))
                                      /\ codec.base[4] = "_")
             => /\ codec.name = p \o <<"_">> \o codec.base
                /\ codec.out = <<p, codec.base>>

\* a one-character name of a numbered folder has been encoded and decoded
C10_Witness ==
    /\ codec.phase = "decoded"
    /\ Len(codec.dir) = 4 /\ IsDigits3(Take(codec.dir, 3))
    /\ Len(codec.base) = 1
    /\ codec.out = <<Take(codec.dir, 3), codec.base>>

\* the selected JPEGs of session d
SelectedJpegs(d) == {n \in DOMAIN Dir(sel, d) : IsJpeg(n)}

\* S is p_b.ext with p three digits; Unprefixed(S) is b.ext
HasDigitPrefix(S) == Len(S) > 4 /\ IsDigits3(Take(S, 3)) /\ S[4] = "_"

Unprefixed(S) == SubSeq(S, 5, Len(S))

WithCR3(stem) == stem \o <<".", "C", "R", "3">>

\* the name of the raw sibling of stored JPEG S on the card, and of its export
SiblingName(S) == WithCR3(Stem(IF HasDigitPrefix(S) THEN Unprefixed(S) ELSE S))

ExportName(S) == WithCR3(Stem(S))

\* the JPEGs a raw export call has worked on: the selected ones, or the one named
Exported ==
    IF resp'.r.op = "exportRaw" THEN SelectedJpegs(resp'.r.dir) ELSE {resp'.r.file}

\* C5: for a stored JPEG S = p_b.ext, a raw export copies the card file named
\* stem(b).CR3 to selected/raw/stem(S).CR3, whenever such a card file exists
\* and the export is not there yet, and it writes nothing else.
C5_RawKeepsJpegStem ==
    [][(IsCall("exportRaw") \/ IsCall("exportRawSingle")) /\ resp'.r.status = 200
         => LET d == resp'.r.dir
                new == DOMAIN Dir(raw', d) \ DOMAIN Dir(raw, d)
            IN /\ \A S \in Exported :
                    HasDigitPrefix(S) =>
                      /\ ExportName(S) \in new
                           => /\ raw'[d][ExportName(S)].name = WithCR3(Stem(Unprefixed(S)))
                              /\ raw'[d][ExportName(S)].whole
                              /\ \E f \in vol : /\ f.name = raw'[d][ExportName(S)].name
                                                /\ f.dir = raw'[d][ExportName(S)].dir
                      /\ (\E f \in vol : f.name = WithCR3(Stem(Unprefixed(S))))
                           /\ ExportName(S) \notin DOMAIN Dir(raw, d)
                           => ExportName(S) \in new
               /\ new \subseteq {ExportName(S) : S \in Exported}]_vars

\* a batch export has copied 100CANON/A.CR3 for the selected 100_A.JPG
C5_Witness ==
    /\ resp.r.op = "exportRaw" /\ resp.r.status = 200 /\ resp.r.copied >= 1
    /\ \E S \in SelectedJpegs(resp.r.dir) :
         /\ HasDigitPrefix(S)
         /\ ExportName(S) \in DOMAIN Dir(raw, resp.r.dir)
         /\ raw[resp.r.dir][ExportName(S)] =
              [dir |-> Take(S, 3) \o CANON, name |-> WithCR3(Stem(Unprefixed(S))),
               whole |-> TRUE]

\* the selected JPEGs of session d with no raw sibling in any source folder
Missing(d) == {S \in SelectedJpegs(d) : ~\E f \in vol : f.name = SiblingName(S)}

SecondThumbnailRequest ==
    /\ IsCall("thumbnail") /\ resp.r.op = "thumbnail"
    /\ resp'.r.dir = resp.r.dir /\ resp'.r.file = resp.r.file

Requested(r) == {r.files[i] : i \in 1..Len(r.files)}

\* C9: deletePhotos removes every requested photo that exists and its cached
\* thumbnail if there is one; a photo without a thumbnail is deleted and
\* counted as deleted all the same, and adds nothing to errors.
C9_DeleteRemovesThumbnail ==
    [][IsCall("deletePhotos") /\ resp'.r.status = 200
         => LET d == resp'.r.dir
                existing == Requested(resp'.r) \cap DOMAIN Dir(lib, d)
            IN /\ DOMAIN Dir(lib', d) = DOMAIN Dir(lib, d) \ existing
               /\ DOMAIN thumbs' = DOMAIN thumbs \ {<<d, n>> : n \in existing}
               /\ resp'.r.deleted = Cardinality(existing)
               /\ resp'.r.notFound = Cardinality(Requested(resp'.r) \ existing)
               /\ resp'.r.errors = 0]_vars

\* one call has deleted a photo with a cached thumbnail and a file without one
C9_Witness ==
    /\ resp.r.op = "deletePhotos" /\ resp.r.status = 200
    /\ resp.r.deleted = 2 /\ resp.r.thumbsRemoved = 1 /\ resp.r.errors = 0
    /\ \A n \in Requested(resp.r) :
         n \notin DOMAIN Dir(lib, resp.r.dir) /\ <<resp.r.dir, n>> \notin DOMAIN thumbs

Candidates ==
    {f \in vol :
        /\ ~f.isDir
        /\ ~HasPrefix(f.name, <<".", "_">>)
        /\ \/ HasSuffix(ToLower(f.name), <<".", "j", "p", "g">>)
           \/ req.videos /\ HasSuffix(ToLower(f.name), <<".", "m", "p", "4">>)}

\* the candidates older than the cutoff, and those of the others that the
\* library already holds when duplicates are skipped
TooOld == {f \in Candidates : req.since > 0 /\ f.mtime < DayStart(req.since)}

Duplicates ==
    {f \in Candidates \ TooOld :
        req.skip /\ Prefixed(f) \in UNION {DOMAIN lib[s] : s \in DOMAIN lib}}

\* C12: an import that copies nothing reports the cause that filtered the
\* files: no candidate at all, every candidate older than the cutoff, or every
\* candidate a duplicate.
C12_NoOpCauseReported ==
    [][IsCall("import") /\ resp'.r.status = 200 /\ resp'.r.copied = 0
         => /\ Candidates = {} => resp'.r.msg = "no_files"
            /\ Candidates # {} /\ TooOld = Candidates => resp'.r.msg = "no_new_since"
            /\ Candidates # {} /\ Duplicates = Candidates => resp'.r.msg = "all_imported"
            /\ resp'.r.msg = "no_files" => Candidates = {}]_vars

\* the step is an import call that gets past the checks of its request
ImportRuns ==
    /\ IsCall("import") /\ req.since # -1 /\ findUSBMountPoint
    /\ req.target = 0 \/ req.target \in DOMAIN lib

\* C13: in an import a file whose copy fails (or whose destination exists) does
\* not end the batch, every other file to copy is still copied or logged as
\* failed; a source folder that cannot be read, like a destination directory
\* that cannot be created, ends the import with an error and no file copied.
C13_OnlyDirectoryFailuresAbort ==
    [][ImportRuns
         => /\ resp'.r.status = 200
                 => \A f \in Eligible :
                       f.dir \notin resp'.r.log.unread
                         => \/ Prefixed(f) \in DOMAIN Dir(lib', Destination)
                            \/ Prefixed(f) \in resp'.r.log.failed
            /\ resp'.r.status = 500 => lib' = lib
            /\ resp'.r.log.unread # {} => resp'.r.status >= 400 /\ lib' = lib]_vars


(***************************************************************************)
(* The four batch operations with per-file I/O faults.                     *)
(***************************************************************************)
ImportIoStep == \E io \in [CopySites(req) -> Faults] : ImportFromUSB({}, FALSE, io)

SaveFaultyStep ==
    \E d \in DOMAIN lib : \E files \in SUBSET Photos(d) :
        \E io \in [files -> Faults] : SaveSelected(d, files, io)

ExportFaultyStep ==
    \E d \in DOMAIN sel :
        \E io \in [{n \in DOMAIN sel[d] : IsJpeg(n)} -> Faults] : ExportRawFiles(d, FALSE, io)

DeletePhotosFaultyStep ==
    \E d \in DOMAIN lib : \E files \in SUBSET Photos(d) : \E failing \in SUBSET files :
        DeletePhotos(d, ReadDirNames(files), [photo |-> failing, thumb |-> {}])

NextBatch == ImportIoStep \/ SaveFaultyStep \/ ExportFaultyStep \/ DeletePhotosFaultyStep

\* a card with a photo in each folder and the raw file of the first
InitBatch ==
    /\ now = 1
    /\ volDirs = {D100, D101}
    /\ vol = {f \in VolFiles : f.name \in {<<"A", ".", "C", "R", "3">>,
                                            <<"A", ".", "J", "P", "G">>,
                                            <<"B", ".", "J", "P", "G">>}}
    /\ lib = [s \in {} |-> Empty]
    /\ sel = [s \in {} |-> Empty]
    /\ raw = [s \in {} |-> Empty]
    /\ thumbs = [k \in {} |-> "full"]
    /\ req = FormDefaults
    /\ resp = NoResp
    /\ codec = NoCodec
    /\ pool = {}
    /\ ui = NoPage
    /\ calls = NoCalls
    /\ routines = {}
    /\ run = NoRun

SpecBatch == InitBatch /\ [][NextBatch]_vars

\* the files a call added whole to directory d of tree T (T before, T2 after)
AddedWhole(T, T2, d) ==
    {n \in DOMAIN Dir(T2, d) \ DOMAIN Dir(T, d) : Dir(T2, d)[n] = "full"}

\* C14: in every batch operation (save selected, import, batch raw export,
\* delete) the number of files the response reports as copied or deleted is the
\* number of files for which the operation succeeded; a file whose open, copy
\* or delete failed is not counted.
C14_ReportedCountIsSuccessCount ==
    [][/\ IsCall("save") /\ resp'.r.status = 200
            => resp'.r.reported = Cardinality(resp'.r.files \ resp'.r.failed)
       /\ IsCall("import") /\ resp'.r.status = 200
            => resp'.r.copied = Cardinality(AddedWhole(lib, lib', Destination))
       /\ IsCall("exportRaw") /\ resp'.r.status = 200
            => resp'.r.copied =
                 Cardinality({n \in DOMAIN Dir(raw', resp'.r.dir) \ DOMAIN Dir(raw, resp'.r.dir) :
                                 raw'[resp'.r.dir][n].whole})
       /\ IsCall("deletePhotos") /\ resp'.r.status = 200
            => resp'.r.deleted =
                 Cardinality(DOMAIN Dir(lib, resp'.r.dir) \ DOMAIN Dir(lib', resp'.r.dir))]_vars


(***************************************************************************)
(* Every handler that takes a request body, called with well-formed and    *)
(* with incomplete requests, no I/O fault.                                 *)
(***************************************************************************)
\* the since field: empty, or a string time.Parse rejects
SinceStep == \E s \in {-1, 0} : SetRequest([req EXCEPT !.since = s])

\* the stored names a request can carry
StoredNames == UNION {Photos(s) : s \in DOMAIN lib}

\* the directory field of a request of the page: a listed session, or missing
RequestDirectories == {NoDirectory} \cup DOMAIN lib

SaveRequestStep ==
    \E d \in RequestDirectories : \E files \in SUBSET StoredNames : SaveSelected(d, files, NoFaults)

ExportRequestStep == \E d \in 0..MaxTime : ExportRawFiles(d, FALSE, NoFaults)

ExportSingleRequestStep ==
    \E d \in RequestDirectories : \E filename \in StoredNames \cup {<<>>} :
        ExportRawSingleFile(d, filename, FALSE, "none")

DeletePhotosRequestStep ==
    \E d \in RequestDirectories : \E files \in SUBSET StoredNames :
        DeletePhotos(d, ReadDirNames(files), NoRemoveFaults)

\* the listing's test for picture files
IsPicture(name) ==
    \E suffix \in {<<".", "p", "n", "g">>, <<".", "j", "p", "g">>,
                   <<".", "j", "p", "e", "g">>, <<".", "g", "i", "f">>} :
        HasSuffix(ToLower(name), suffix)

SelectedResponse(status, d, photos) ==
    [op |-> "selectedPhotos", status |-> status, dir |-> d, photos |-> photos]

\* the listing that treats a missing selected folder like any other read error
getSelectedPhotosHandlerNoNotExistCase(d) ==
    IF d = NoDirectory THEN SelectedResponse(400, d, <<>>)
    ELSE IF d \notin DOMAIN sel THEN SelectedResponse(500, d, <<>>)
    ELSE SelectedResponse(200, d,
             ReadDirNames({n \in DOMAIN sel[d] : IsPicture(n) /\ ~IsSidecar(n)}))

\* GET /api/selected-photos?directory=d: its response
getSelectedPhotosHandler(d) ==
    IF d = NoDirectory THEN SelectedResponse(400, d, <<>>)
    ELSE IF d \notin DOMAIN sel THEN SelectedResponse(200, d, <<>>)
    ELSE SelectedResponse(200, d,
             ReadDirNames({n \in DOMAIN sel[d] : IsPicture(n) /\ ~IsSidecar(n)}))

GetSelectedPhotos(d) ==
    /\ resp' = Answer(getSelectedPhotosHandler(d))
    /\ UNCHANGED <<now, volDirs, vol, lib, sel, raw, thumbs, req, codec, pool, ui, calls, routines, run>>

\* GET /api/export-status?directory=d: its response
exportStatusHandler(d) ==
    LET jpegFiles == {n \in DOMAIN Dir(sel, d) : IsJpeg(n)}
        rawFileMap == {n \in DOMAIN Dir(raw, d) :
                          HasSuffix(ToLower(n), <<".", "c", "r", "3">>)}
        missing == {j \in jpegFiles : RawName(Stem(j)) \notin rawFileMap}
        Reply(status, selected, rawCount, missingCount) ==
            [op |-> "exportStatus", status |-> status, dir |-> d,
             selectedCount |-> selected, rawCount |-> rawCount,
             missingCount |-> missingCount]
    IN IF d = NoDirectory THEN Reply(400, 0, 0, 0)
       ELSE Reply(200, Cardinality(jpegFiles), Cardinality(rawFileMap),
                  Cardinality(missing))

ExportStatus(d) ==
    /\ resp' = Answer(exportStatusHandler(d))
    /\ UNCHANGED <<now, volDirs, vol, lib, sel, raw, thumbs, req, codec, pool, ui, calls, routines, run>>

SelectedPhotosStep == \E d \in 0..MaxTime : GetSelectedPhotos(d)

ExportStatusStep == \E d \in 0..MaxTime : ExportStatus(d)

NextRequests ==
    \/ ImportStep
    \/ SelectedPhotosStep
    \/ ExportStatusStep
    \/ SinceStep
    \/ SaveRequestStep
    \/ ExportRequestStep
    \/ ExportSingleRequestStep
    \/ DeletePhotosRequestStep

SpecRequests == InitBatch /\ [][NextRequests]_vars

\* the call answered in this step had a request that fails validation
FailsValidation ==
    \/ IsCall("save") /\ (resp'.r.files = {} \/ resp'.r.dir = NoDirectory)
    \/ IsCall("import") /\ req.since = -1
    \/ IsCall("exportRaw") /\ resp'.r.dir = NoDirectory
    \/ IsCall("exportRawSingle") /\ (resp'.r.dir = NoDirectory \/ resp'.r.file = <<>>)
    \/ IsCall("deletePhotos") /\ (resp'.r.dir = NoDirectory \/ Len(resp'.r.files) = 0)

\* C15: a request that fails validation (save with no selected files or no
\* directory, import with a malformed since date, export-raw, export-raw-single
\* or delete-photos with a missing field) is answered with a 4xx status and
\* leaves the library, the selected and raw folders, the thumbnail cache and
\* the card unchanged.
C15_InvalidRequestChangesNothing ==
    [][FailsValidation
         => /\ resp'.r.status \in 400..499
            /\ UNCHANGED <<lib, sel, raw, thumbs, vol, volDirs>>]_vars

\* a single export without a filename was rejected for a session that has no
\* selected folder yet
C15_Witness ==
    /\ resp.r.op = "exportRawSingle" /\ resp.r.status = 400
    /\ resp.r.file = <<>>
    /\ resp.r.dir \in DOMAIN lib /\ resp.r.dir \notin DOMAIN sel


\* the call answered in this step was about a session that has no selected
\* folder yet
NoSelectionYet(op) ==
    /\ IsCall(op)
    /\ resp'.r.dir \in DOMAIN lib /\ resp'.r.dir \notin DOMAIN sel

\* C16: when a session has no selected folder yet, the selected-photos listing,
\* the export status and the batch raw export each answer with an empty success
\* result (empty list, zero counts) and not with an error.
C16_NoSelectionIsEmptySuccess ==
    [][/\ NoSelectionYet("selectedPhotos")
            => resp'.r.status = 200 /\ resp'.r.photos = <<>>
       /\ NoSelectionYet("exportStatus")
            => /\ resp'.r.status = 200
               /\ resp'.r.selectedCount = 0 /\ resp'.r.rawCount = 0
               /\ resp'.r.missingCount = 0
       /\ NoSelectionYet("exportRaw")
            => /\ resp'.r.status = 200
               /\ resp'.r.copied = 0 /\ resp'.r.skipped = 0 /\ resp'.r.notFound = 0]_vars

\* C16 as the handlers have it: without a selected folder the selected-photos
\* listing answers 200 with an empty list and the export status 200 with zero
\* counts, while the batch raw export answers with a 404 error and writes
\* nothing.
C16_NoSelectionListsEmptyExportFails ==
    [][/\ NoSelectionYet("selectedPhotos")
            => resp'.r.status = 200 /\ resp'.r.photos = <<>>
       /\ NoSelectionYet("exportStatus")
            => /\ resp'.r.status = 200
               /\ resp'.r.selectedCount = 0 /\ resp'.r.rawCount = 0
               /\ resp'.r.missingCount = 0
       /\ NoSelectionYet("exportRaw")
            => resp'.r.status = 404 /\ UNCHANGED <<lib, sel, raw>>]_vars

\* the batch raw export was asked for an imported session with nothing selected
C16_Witness ==
    /\ resp.r.op = "exportRaw" /\ resp.r.status = 404
    /\ resp.r.dir \in DOMAIN lib /\ resp.r.dir \notin DOMAIN sel
    /\ lib[resp.r.dir] # Empty


(***************************************************************************)
(* Thumbnail pre-generation.  pool holds the channel entries of the        *)
(* running preGenerateThumbnails calls that no worker has taken yet.       *)
(***************************************************************************)
PhotosResponse(status, d, photos) ==
    [op |-> "photos", status |-> status, dir |-> d, photos |-> photos]

\* GET /api/photos?directory=d: its response and the photos it hands to
\* preGenerateThumbnails in the background
getPhotosHandler(d) ==
    LET photos == ReadDirNames({n \in DOMAIN Dir(lib, d) : IsPicture(n) /\ ~IsSidecar(n)})
    IN IF d = NoDirectory THEN [resp |-> PhotosResponse(400, d, <<>>), pregen |-> <<>>]
       ELSE IF d \notin DOMAIN lib
         THEN [resp |-> PhotosResponse(500, d, <<>>), pregen |-> <<>>]
       ELSE [resp |-> PhotosResponse(200, d, photos), pregen |-> photos]

GetPhotos(d) ==
    LET out == getPhotosHandler(d)
    IN /\ resp' = Answer(out.resp)
       /\ pool' = pool \cup Jobs(d, out.pregen)
       /\ UNCHANGED <<now, volDirs, vol, lib, sel, raw, thumbs, req, codec, ui, calls, routines, run>>

\* One worker of preGenerateThumbnails takes an entry from the channel and runs
\* generateThumbnail on it; an error is logged and nothing else.
preGenerateThumbnails(job, fault) ==
    /\ thumbs' = generateThumbnail(job[1], job[2], fault).thumbs
    /\ pool' = pool \ {job}
    /\ UNCHANGED <<now, volDirs, vol, lib, sel, raw, req, resp, codec, ui, calls, routines, run>>

GetPhotosStep == \E d \in RequestDirectories : GetPhotos(d)

WorkerStep == \E job \in pool : \E fault \in ThumbFaults : preGenerateThumbnails(job, fault)

ThumbnailRequestStep ==
    \E d \in DOMAIN lib : \E filename \in DOMAIN lib[d] : ServeThumbnail(d, filename, "none")

NextPool == ImportStep \/ GetPhotosStep \/ WorkerStep \/ ThumbnailRequestStep

\* import, listing and thumbnails on demand without I/O fault, while the
\* background workers can meet every fault of generateThumbnail
SpecPool == InitBatch /\ [][NextPool]_vars

\* C17: thumbnail pre-generation is fire-and-forget.  The import and the photo
\* listing answer without a thumbnail generated, their photos left to the
\* workers; a worker's step changes no response; and a failed background
\* generation changes no later response: a thumbnail request that succeeds
\* serves a complete thumbnail.
C17_PregenerationIsFireAndForget ==
    [][/\ IsCall("import") \/ IsCall("photos") => thumbs' = thumbs
       /\ pool' # pool /\ pool' \subseteq pool => resp' = resp
       /\ IsCall("thumbnail") /\ resp'.r.status = 200 => resp'.r.body = "full"]_vars


(***************************************************************************)
(* The page (App.js).  ui holds the React state the navigation and the     *)
(* import button depend on: photos, currentIndex (from 0, as in the page), *)
(* isImporting and currentDirectory (0 is the empty string); inFlight says *)
(* that handleImport awaits its fetch, loaded that the effect which loads  *)
(* the photos of currentDirectory has run; last and seq name the handler   *)
(* that ran last.  selectedPhotos and savedPhotos are the two sets of the   *)
(* selection, fetched says that the effect has loaded the saved photos of  *)
(* currentDirectory, saves holds the requests of handleSave whose fetch is *)
(* pending, and chosen records the photos the user selected and did not    *)
(* unselect since the selection of the current directory was loaded.       *)
(***************************************************************************)
server ==
    <<now, volDirs, vol, lib, sel, raw, thumbs, req, resp, codec, pool, calls, routines, run>>

\* disabled={photos.length === 0} of the Previous and of the Next button
PreviousDisabled == Len(ui.photos) = 0

NextDisabled == Len(ui.photos) = 0

\* disabled={isImporting} of the Import button
ImportDisabled == ui.isImporting

\* the state a handler leaves, marked with the handler's name
Handled(name, u) == [u EXCEPT !.last = name, !.seq = 1 - ui.seq]

\* navigate without its test for an empty list and without the wrap-around
navigateUnguarded(direction) == ui.currentIndex + direction

\* navigate(direction): the index it sets
navigate(direction) ==
    IF Len(ui.photos) = 0 THEN ui.currentIndex
    ELSE (ui.currentIndex + direction + Len(ui.photos)) % Len(ui.photos)

\* a call of navigate, from a button or a key
Navigate(direction) ==
    /\ ui' = Handled("navigate", [ui EXCEPT !.currentIndex = navigate(direction)])
    /\ UNCHANGED server

\* a thumbnail of the carousel is clicked
CarouselClick(photoIndex) ==
    /\ ui' = Handled("carousel", [ui EXCEPT !.currentIndex = photoIndex])
    /\ UNCHANGED server

\* the Import button is clicked: handleImport up to its fetch
ClickImport ==
    /\ ~ImportDisabled
    /\ ui' = Handled("handleImport", [ui EXCEPT !.isImporting = TRUE, !.inFlight = TRUE])
    /\ UNCHANGED server

\* handleImport after its fetch: a successful import into a new session makes
\* that session the current directory
importedDirectory(data) ==
    IF data.status = 200 /\ data.newdir # 0 /\ req.target = 0
    THEN data.newdir ELSE ui.currentDirectory

\* The page loaded anew over the library sessions: the state is the useState
\* defaults, and fetchDirectories makes the newest session the current
\* directory.
rendered(sessions) ==
    [NoPage EXCEPT !.currentDirectory =
                       IF sessions = {} THEN NoDirectory
                       ELSE CHOOSE d \in sessions : \A e \in sessions : e <= d,
                   !.loaded = (sessions = {}),
                   !.fetched = (sessions = {})]

\* handleImport from the response to its end; a successful import into the
\* current batch reloads the page
handleImport(data, directory, sessions) ==
    Handled("handleImport",
        IF data.status = 200 /\ ~(data.newdir # 0 /\ req.target = 0) /\ req.target # 0
        THEN rendered(sessions)
        ELSE [ui EXCEPT !.isImporting = FALSE, !.inFlight = FALSE,
                        !.currentDirectory = directory,
                        !.loaded = ui.loaded /\ directory = ui.currentDirectory,
                        !.fetched = ui.fetched /\ directory = ui.currentDirectory,
                        !.chosen = IF directory = ui.currentDirectory
                                   THEN ui.chosen ELSE {}])

\* the state the server and the page are left in by the import out
ImportReturned(out) ==
    /\ lib' = out.lib
    /\ resp' = Answer(out.resp)
    /\ pool' = pool \cup Jobs(out.dirName, out.pregen)
    /\ ui' = handleImport(out.resp, importedDirectory(out.resp), DOMAIN out.lib)

\* the server handles the import and handleImport runs to its end
ImportReturns ==
    /\ ui.inFlight
    /\ ImportReturned(importFromUSBHandler(req, {}, FALSE, NoFaults))
    /\ UNCHANGED <<now, volDirs, vol, sel, raw, thumbs, req, codec, calls, routines, run>>

\* The effect on currentDirectory: the photos of the directory are fetched.  An
\* error status, and the null the server encodes for a directory without
\* photos, end in the catch and leave the list as it was.
LoadPhotos ==
    /\ ~ui.loaded /\ ui.currentDirectory # NoDirectory
    /\ LET out == getPhotosHandler(ui.currentDirectory)
           data == out.resp.photos
       IN /\ resp' = Answer(out.resp)
          /\ pool' = pool \cup Jobs(ui.currentDirectory, out.pregen)
          /\ ui' = Handled("photos",
                       IF out.resp.status = 200 /\ Len(data) > 0
                       THEN [ui EXCEPT !.photos = data, !.currentIndex = 0, !.loaded = TRUE]
                       ELSE [ui EXCEPT !.loaded = TRUE])
    /\ UNCHANGED <<now, volDirs, vol, lib, sel, raw, thumbs, req, codec, calls, routines, run>>

\* The effect on currentDirectory: the saved photos of the directory are
\* fetched.  The response sets savedPhotos (to nothing after an error) and
\* clears selectedPhotos.
LoadSelected ==
    /\ ~ui.fetched /\ ui.currentDirectory # NoDirectory
    /\ LET data == getSelectedPhotosHandler(ui.currentDirectory)
       IN /\ resp' = Answer(data)
          /\ ui' = Handled("selectedPhotos",
                       [ui EXCEPT !.savedPhotos = IF data.status = 200
                                                  THEN {data.photos[i] : i \in DOMAIN data.photos}
                                                  ELSE {},
                                  !.selectedPhotos = {},
                                  !.fetched = TRUE,
                                  !.chosen = {}])
    /\ UNCHANGED <<now, volDirs, vol, lib, sel, raw, thumbs, req, codec, pool, calls, routines, run>>

\* another directory is chosen in the list of directories
SelectDirectory(d) ==
    /\ d # ui.currentDirectory
    /\ ui' = Handled("select", [ui EXCEPT !.currentDirectory = d, !.loaded = FALSE,
                                          !.fetched = FALSE, !.chosen = {}])
    /\ UNCHANGED server

\* the page is loaded anew
Reload ==
    /\ ui' = Handled("render", rendered(DOMAIN lib))
    /\ UNCHANGED server

NavigateStep == \E direction \in {-1, 1} : Navigate(direction)

CarouselStep == \E photoIndex \in 0..(Len(ui.photos) - 1) : CarouselClick(photoIndex)

SelectDirectoryStep == \E d \in DOMAIN lib : SelectDirectory(d)

\* the skip-duplicates check box
FormSkipStep == SetRequest([req EXCEPT !.skip = ~req.skip])

\* the add-to-current-batch check box: the target is the current directory
FormTargetStep ==
    SetRequest([req EXCEPT !.target = IF req.target = 0 THEN ui.currentDirectory ELSE 0])

NextUI ==
    \/ ClickImport
    \/ FormSkipStep
    \/ FormTargetStep
    \/ ImportReturns
    \/ LoadPhotos
    \/ LoadSelected
    \/ NavigateStep
    \/ CarouselStep
    \/ SelectDirectoryStep
    \/ Reload
    \/ Tick

SpecUI == InitBatch /\ [][NextUI]_vars

\* C18: in the page, whenever the photo list is empty the Previous and the Next
\* button are disabled and a call of navigate leaves the current index as it
\* was, and whenever no import is in flight the Import button is enabled.
C18_EmptyListDisablesNavigation ==
    [][/\ Len(ui'.photos) = 0 => PreviousDisabled' /\ NextDisabled'
       /\ ui'.seq # ui.seq /\ ui'.last = "navigate" /\ Len(ui.photos) = 0
            => ui'.currentIndex = ui.currentIndex
       /\ ~ui'.inFlight => ~ImportDisabled']_vars

\* navigate was called on a page without photos, after an import, with no
\* import in flight
C18_Witness ==
    /\ ui.last = "navigate" /\ Len(ui.photos) = 0
    /\ DOMAIN lib # {} /\ ~ui.inFlight /\ ~ImportDisabled


(***************************************************************************)
(* importFromUSBHandler step by step, for requests served at the same time *)
(* (net/http runs every request in a goroutine of its own).  A call in its *)
(* loop holds the files it gathered, its position, the request with the    *)
(* destination and the duplicate index, its counters, and began, the       *)
(* library as it was when the index was built.                             *)
(***************************************************************************)
\* the index the duplicate test of call c reads, were it rebuilt at every file
importedFilesRebuilt(c) ==
    IF calls[c].P.skip THEN buildImportedFilesSet(lib) ELSE {}

\* the index the duplicate test of call c reads: importedFiles
importedFiles(c) == calls[c].P.index

\* the handler up to its loop; a request that is refused is answered at once
ImportBegin(c) ==
    LET out == importFromUSBHandler(req, {}, FALSE, NoFaults)
        P == [since |-> req.since, skip |-> req.skip, videos |-> req.videos,
              dest |-> IF req.target = 0 THEN now ELSE req.target,
              index |-> IF req.skip THEN buildImportedFilesSet(lib) ELSE {},
              mk |-> FALSE, io |-> NoFaults]
    IN /\ calls[c].pc = "idle"
       /\ IF out.resp.status # 200
          THEN /\ resp' = Answer(out.resp)
               /\ UNCHANGED calls
          ELSE /\ calls' = [calls EXCEPT ![c] =
                              [pc |-> "loop", files |-> allFiles({}), i |-> 1, P |-> P,
                               isNewBatch |-> req.target = 0,
                               created |-> req.target # 0, copied |-> 0, skipped |-> 0,
                               copiedFiles |-> <<>>, began |-> lib]]
               /\ UNCHANGED resp
       /\ UNCHANGED <<now, volDirs, vol, lib, sel, raw, thumbs, req, codec, pool, ui, routines, run>>

\* one iteration of the loop of call c, on the library as it is now
ImportFile(c) ==
    /\ calls[c].pc = "loop" /\ calls[c].i <= Len(calls[c].files)
    /\ LET k == calls[c]
           st == importLoop(<<k.files[k.i]>>, 1,
                     [L |-> lib, created |-> k.created, copied |-> k.copied,
                      skipped |-> k.skipped, copiedFiles |-> k.copiedFiles,
                      failed |-> {}, abort |-> FALSE],
                     [k.P EXCEPT !.index = importedFiles(c)])
       IN /\ lib' = st.L
          /\ calls' = [calls EXCEPT ![c].i = k.i + 1, ![c].created = st.created,
                                    ![c].copied = st.copied, ![c].skipped = st.skipped,
                                    ![c].copiedFiles = st.copiedFiles]
    /\ UNCHANGED <<now, volDirs, vol, sel, raw, thumbs, req, resp, codec, pool, ui, routines, run>>

\* the handler after its loop: the thumbnails are handed to the pool and the
\* response is written
ImportEnd(c) ==
    /\ calls[c].pc = "loop" /\ calls[c].i > Len(calls[c].files)
    /\ LET k == calls[c]
           log == [unread |-> {}, failed |-> {}]
       IN /\ resp' = Answer(
                 IF k.copied = 0
                 THEN ImportResponse(200,
                          IF k.P.since # 0 THEN "no_new_since"
                          ELSE IF k.skipped > 0 THEN "all_imported"
                          ELSE "no_files", 0, k.skipped, 0, log)
                 ELSE ImportResponse(200, "copied", k.copied, k.skipped,
                                     IF k.isNewBatch THEN k.P.dest ELSE 0, log))
          /\ pool' = pool \cup (IF k.copied = 0 THEN {} ELSE Jobs(k.P.dest, k.copiedFiles))
    /\ calls' = [calls EXCEPT ![c] = [pc |-> "idle"]]
    /\ UNCHANGED <<now, volDirs, vol, lib, sel, raw, thumbs, req, codec, ui, routines, run>>

ImportBeginStep == \E c \in Calls : ImportBegin(c)

ImportFileStep == \E c \in Calls : ImportFile(c)

ImportEndStep == \E c \in Calls : ImportEnd(c)

NextConcurrent == ImportBeginStep \/ ImportFileStep \/ ImportEndStep \/ Tick

\* two import requests served at the same time, without I/O fault
SpecConcurrent == InitBatch /\ [][NextConcurrent]_vars

\* call c has just gone through one iteration of its loop
Iterated(c) ==
    /\ calls[c].pc = "loop" /\ calls'[c].pc = "loop"
    /\ calls'[c].i = calls[c].i + 1

SearchCards ==
    { [dirs |-> {D100, D101},
       files |-> {f \in VolFiles \cup StrayRawFiles :
                     f.name \in {<<"A", ".", "C", "R", "3">>, <<"A", ".", "J", "P", "G">>,
                                 <<"A", ".", "j", "p", "g">>}}],
      [dirs |-> {D100, D101, D101canon},
       files |-> {f \in VolFiles \cup StrayRawFiles :
                     f.name \in {<<"B", ".", "C", "R", "3">>, <<"B", ".", "J", "P", "G">>,
                                 <<"A", ".", "J", "P", "G">>}}] }

InitSearch ==
    /\ now = 1
    /\ \E c \in SearchCards : volDirs = c.dirs /\ vol = c.files
    /\ lib = [s \in {} |-> Empty]
    /\ sel = [s \in {} |-> Empty]
    /\ raw = [s \in {} |-> Empty]
    /\ thumbs = [k \in {} |-> "full"]
    /\ req = FormDefaults
    /\ resp = NoResp
    /\ codec = NoCodec
    /\ pool = {}
    /\ ui = NoPage
    /\ calls = NoCalls
    /\ routines = {}
    /\ run = NoRun

\* a single export for a photo of the session or for a name without a prefix
ExportSingleSearchStep ==
    \E d \in DOMAIN lib :
        \E filename \in Photos(d) \cup {<<"A", ".", "J", "P", "G">>, <<"B", ".", "J", "P", "G">>} :
            ExportRawSingleFile(d, filename, FALSE, "none")

NextSearch == ImportStep \/ SaveStep \/ ExportStep \/ ExportSingleSearchStep

SpecSearch == InitSearch /\ [][NextSearch]_vars

\* the raw file of stored JPEG S lies in folder d of the card
RawOn(d, S) == \E f \in vol : f.dir = d /\ f.name = SiblingName(S)

\* the folders searched for the raw file of S, in the order of the search
SearchOrder(S) ==
    (IF HasDigitPrefix(S)
     THEN <<Take(S, 3) \o <<"C", "A", "N", "O", "N">>,
            Take(S, 3) \o <<"c", "a", "n", "o", "n">>>>
     ELSE <<>>)
    \o SelectSeq(<<D100, D101>>, LAMBDA d : d \in volDirs)

\* the first folder of the search order that holds the raw file of S
FirstWithRaw(S) ==
    LET order == SearchOrder(S)
        hits == {i \in 1..Len(order) : RawOn(order[i], S)}
    IN order[CHOOSE i \in hits : \A j \in hits : i <= j]

\* C20: the raw file of a selected photo is copied from the first folder that
\* holds it in this order: the folder prefix+"CANON", the folder
\* prefix+"canon", then the source folders 100CANON, 101CANON; a name without
\* prefix is searched in the source folders only.  So a raw file that lies in
\* the prefix's folder and in another one is taken from the prefix's folder.
C20_RawSearchOrder ==
    [][(IsCall("exportRaw") \/ IsCall("exportRawSingle")) /\ resp'.r.status = 200
         => LET d == resp'.r.dir
                new == DOMAIN Dir(raw', d) \ DOMAIN Dir(raw, d)
            IN \A S \in Exported :
                  ExportName(S) \in new
                    => /\ \E i \in 1..Len(SearchOrder(S)) : RawOn(SearchOrder(S)[i], S)
                       /\ raw'[d][ExportName(S)].dir = FirstWithRaw(S)]_vars

\* the raw file of 101_A.jpg was taken from 101CANON although 100CANON, the
\* first source folder, holds a file of the same name
C20_Witness ==
    /\ resp.r.op \in {"exportRaw", "exportRawSingle"} /\ resp.r.status = 200
    /\ \E S \in DOMAIN Dir(sel, resp.r.dir) :
         /\ HasDigitPrefix(S) /\ Take(S, 3) \o CANON = D101
         /\ ExportName(S) \in DOMAIN Dir(raw, resp.r.dir)
         /\ raw[resp.r.dir][ExportName(S)].dir = D101
         /\ RawOn(D100, S) /\ RawOn(D101, S)


(***************************************************************************)
(* The counters of the batch raw export under I/O faults.                  *)
(***************************************************************************)
\* the search of the export finds a raw file for stored JPEG S
Located(S) ==
    LET split == splitPrefixedFilename(Stem(S))
    IN findRaw(split[1], RawName(split[2])) # {}

\* C21: in a batch raw export not_found is exactly the number of selected JPEGs
\* for which the search located no raw file and whose export was not in
\* selected/raw already (a located raw file that could not be opened, created or
\* copied is not among them), and copied + skipped + not_found is
\* total_selected whenever no such I/O failure occurred.
C21_NotFoundCountsOnlyUnlocated ==
    [][IsCall("exportRaw") /\ resp'.r.status = 200
         => LET d == resp'.r.dir
                unlocated == {S \in SelectedJpegs(d) :
                                 ~Located(S) /\ ExportName(S) \notin DOMAIN Dir(raw, d)}
            IN /\ resp'.r.notFound = Cardinality(unlocated)
               /\ resp'.r.failed = {}
                    => resp'.r.copied + resp'.r.skipped + resp'.r.notFound = resp'.r.total]_vars


(***************************************************************************)
(* The two raw exports on a file whose export is in selected/raw already.  *)
(***************************************************************************)
\* C22: in the batch and in the single-file raw export a file whose export
\* exists in selected/raw is reported as skipped and the existing file is left
\* as it is, whatever the card holds for it.
C22_ExistingExportIsSkipped ==
    [][/\ IsCall("exportRawSingle") /\ findUSBMountPoint
          /\ ExportName(resp'.r.file) \in DOMAIN Dir(raw, resp'.r.dir)
            => resp'.r.status = 200 /\ resp'.r.result = "skipped" /\ raw' = raw
       /\ IsCall("exportRaw") /\ resp'.r.status = 200
            => LET d == resp'.r.dir
                   there == {S \in SelectedJpegs(d) : ExportName(S) \in DOMAIN Dir(raw, d)}
               IN /\ resp'.r.skipped = Cardinality(there)
                  /\ \A S \in there : raw'[d][ExportName(S)] = raw[d][ExportName(S)]]_vars


(***************************************************************************)
(* generateThumbnail under every fault, on demand and in the background.   *)
(***************************************************************************)
\* a thumbnail request for a stored or a missing photo, meeting any fault
ThumbnailFaultyStep ==
    \E d \in DOMAIN lib : \E filename \in DOMAIN lib[d] \cup RequestNames :
        \E fault \in ThumbFaults : ServeThumbnail(d, filename, fault)

NextGenerate == ImportIoStep \/ ThumbnailFaultyStep \/ WorkerStep

SpecGenerate == InitBatch /\ [][NextGenerate]_vars

\* C23: when thumbnail generation fails at any step (original missing, image
\* undecodable, cache directory or file not created, encoding failed after the
\* file was created), no file is left at the cache path: the failed request
\* leaves none, and the cache never holds a file that is not a complete
\* thumbnail.
C23_FailedGenerationLeavesNothing ==
    [][/\ IsCall("thumbnail") /\ resp'.r.status # 200
            => <<resp'.r.dir, resp'.r.file>> \notin DOMAIN thumbs'
       /\ \A k \in DOMAIN thumbs' : thumbs'[k] = "full"]_vars


(***************************************************************************)
(* generateThumbnail step by step, for thumbnail requests and workers of   *)
(* preGenerateThumbnails running at the same time (each request and each   *)
(* worker is a goroutine).  routines holds the calls in progress: who      *)
(* runs it, the directory and the file, pc, the place the call is at, and  *)
(* unlinked, whether the cache file it created was removed meanwhile.      *)
(***************************************************************************)
\* the most calls of generateThumbnail in progress at a time
MaxRoutines == 2

Routine(id, who, d, filename) ==
    [id |-> id, who |-> who, dir |-> d, file |-> filename, pc |-> "stat",
     unlinked |-> FALSE]

FreeIds == (1..MaxRoutines) \ {r.id : r \in routines}

Key(r) == <<r.dir, r.file>>

\* the routines that have created the cache file of r and are still to write it
Writers(r) == {w \in routines : w.pc = "encode" /\ ~w.unlinked /\ Key(w) = Key(r)}

\* serveThumbnailHandler up to its call of generateThumbnail: a cached file is
\* served at once
ThumbnailArrives(d, filename) ==
    IF <<d, filename>> \in DOMAIN thumbs
    THEN /\ resp' = Answer(ThumbResponse(200, d, filename, thumbs[<<d, filename>>], FALSE))
         /\ UNCHANGED <<now, volDirs, vol, lib, sel, raw, thumbs, req, codec, pool, ui,
                        calls, routines, run>>
    ELSE /\ FreeIds # {}
         /\ routines' = routines \cup
                          {Routine(CHOOSE id \in FreeIds : TRUE, "request", d, filename)}
         /\ UNCHANGED <<now, volDirs, vol, lib, sel, raw, thumbs, req, resp, codec, pool,
                        ui, calls, run>>

\* a worker of preGenerateThumbnails receives a filename and calls
\* generateThumbnail
WorkerTakes(job) ==
    /\ FreeIds # {}
    /\ pool' = pool \ {job}
    /\ routines' = routines \cup
                     {Routine(CHOOSE id \in FreeIds : TRUE, "worker", job[1], job[2])}
    /\ UNCHANGED <<now, volDirs, vol, lib, sel, raw, thumbs, req, resp, codec, ui, calls,
                   run>>

\* generateThumbnail has returned in routine r, with or without an error: a
\* worker logs the error and goes on, the handler answers 500 or goes on to
\* serve the file
Returned(r, err, decoded) ==
    IF r.who = "worker"
    THEN /\ routines' = routines \ {r}
         /\ UNCHANGED resp
    ELSE IF err
      THEN /\ routines' = routines \ {r}
           /\ resp' = Answer(ThumbResponse(500, r.dir, r.file, "none", decoded))
      ELSE /\ routines' = (routines \ {r}) \cup
                            {[r EXCEPT !.pc = "serve", !.unlinked = FALSE]}
           /\ UNCHANGED resp

\* os.Stat(thumbnailPath) of generateThumbnail: a file that exists is kept
GenerateStat(r) ==
    /\ r.pc = "stat"
    /\ IF Key(r) \in DOMAIN thumbs THEN Returned(r, FALSE, FALSE)
       ELSE /\ routines' = (routines \ {r}) \cup {[r EXCEPT !.pc = "open"]}
            /\ UNCHANGED resp
    /\ UNCHANGED <<now, volDirs, vol, lib, sel, raw, thumbs, req, codec, pool, ui, calls,
                   run>>

\* os.Open of the original, image.Decode and resize.Thumbnail
GenerateOpen(r) ==
    /\ r.pc = "open"
    /\ IF r.file \in DOMAIN Dir(lib, r.dir) /\ Decodes(r.file, Dir(lib, r.dir)[r.file])
       THEN /\ routines' = (routines \ {r}) \cup {[r EXCEPT !.pc = "create"]}
            /\ UNCHANGED resp
       ELSE Returned(r, TRUE, r.file \in DOMAIN Dir(lib, r.dir))
    /\ UNCHANGED <<now, volDirs, vol, lib, sel, raw, thumbs, req, codec, pool, ui, calls,
                   run>>

\* os.MkdirAll and os.Create: the cache file is made, or truncated when it is
\* there
GenerateCreate(r) ==
    /\ r.pc = "create"
    /\ thumbs' = Put(thumbs, Key(r), "part")
    /\ routines' = (routines \ {r}) \cup {[r EXCEPT !.pc = "encode"]}
    /\ UNCHANGED <<now, volDirs, vol, lib, sel, raw, req, resp, codec, pool, ui, calls,
                   run>>

\* jpeg.Encode writes the file r created and generateThumbnail returns.  While
\* another routine that truncated the same file is still to write it, the file
\* may or may not be a complete image.
GenerateEncode(r) ==
    /\ r.pc = "encode"
    /\ IF r.unlinked \/ Key(r) \notin DOMAIN thumbs THEN UNCHANGED thumbs
       ELSE \E content \in (IF Writers(r) = {r} THEN {"full"} ELSE {"part", "full"}) :
               thumbs' = Put(thumbs, Key(r), content)
    /\ Returned(r, FALSE, TRUE)
    /\ UNCHANGED <<now, volDirs, vol, lib, sel, raw, req, codec, pool, ui, calls, run>>

\* http.ServeFile(w, r, thumbnailPath) after generateThumbnail returned nil
ServeFile(r) ==
    /\ r.pc = "serve"
    /\ routines' = routines \ {r}
    /\ resp' = Answer(IF Key(r) \in DOMAIN thumbs
                      THEN ThumbResponse(200, r.dir, r.file, thumbs[Key(r)], TRUE)
                      ELSE ThumbResponse(404, r.dir, r.file, "none", TRUE))
    /\ UNCHANGED <<now, volDirs, vol, lib, sel, raw, thumbs, req, codec, pool, ui, calls,
                   run>>

ThumbnailArrivesStep ==
    \E d \in DOMAIN lib : \E filename \in DOMAIN lib[d] : ThumbnailArrives(d, filename)

WorkerTakesStep == \E job \in pool : WorkerTakes(job)

GenerateStatStep == \E r \in routines : GenerateStat(r)

GenerateOpenStep == \E r \in routines : GenerateOpen(r)

GenerateCreateStep == \E r \in routines : GenerateCreate(r)

GenerateEncodeStep == \E r \in routines : GenerateEncode(r)

ServeFileStep == \E r \in routines : ServeFile(r)

DeleteOneStep ==
    \E d \in DOMAIN lib : \E filename \in DOMAIN lib[d] :
        DeletePhotos(d, <<filename>>, NoRemoveFaults)

NextRace ==
    \/ ImportStep
    \/ GetPhotosStep
    \/ ThumbnailArrivesStep
    \/ WorkerTakesStep
    \/ GenerateStatStep
    \/ GenerateOpenStep
    \/ GenerateCreateStep
    \/ GenerateEncodeStep
    \/ ServeFileStep
    \/ DeleteOneStep

\* import, listing, thumbnail requests, workers and photo deletion interleaved
\* at the steps of generateThumbnail, with no I/O fault
SpecRace == InitThumb /\ [][NextRace]_vars

\* routine r makes the step from pc to the place after it
Steps(r, pc) == r \in routines /\ r.pc = pc /\ r \notin routines'

\* C24: a thumbnail is never regenerated once present, however thumbnail
\* requests and pre-generation workers on the same (session, filename)
\* interleave: os.Create is never run on a cache file that is there, and no
\* request is served a cache file that another routine has still to write (what
\* is served is a complete thumbnail).
C24_NeverRegeneratedOncePresent ==
    [][/\ \A r \in routines : Steps(r, "create") => Key(r) \notin DOMAIN thumbs
       /\ IsCall("thumbnail") /\ resp'.r.status = 200
            => /\ resp'.r.body = "full"
               /\ ~\E w \in routines :
                     w.pc = "encode" /\ ~w.unlinked /\ Key(w) = <<resp'.r.dir, resp'.r.file>>]_vars


\* C25: once deletePhotos has deleted a photo and all background thumbnail
\* work has finished (no routine in generateThumbnail, no filename waiting for
\* a worker), the cache holds no thumbnail of a photo that is not in the
\* library.
C25_DeletedPhotoHasNoThumbnail ==
    routines = {} /\ pool = {}
        => \A k \in DOMAIN thumbs : k[2] \in DOMAIN Dir(lib, k[1])


(***************************************************************************)
(* preGenerateThumbnails(directory, photos) step by step.  run holds one   *)
(* call: its arguments, sent, the number of filenames the producer has     *)
(* sent, chan, the buffered channel, closed, busy, the filenames workers   *)
(* have received and not yet finished, exited, the number of workers that  *)
(* have left their loop, attempted, the filenames generateThumbnail was    *)
(* called for, in order, and failed, those whose error was logged.         *)
(***************************************************************************)
\* const numWorkers = 20
numWorkers == 20

\* make(chan string, len(photos))
capacityUnbuffered(photos) == 0

capacity(photos) == Len(photos)

\* the workers waiting at the channel
Idle == numWorkers - run.exited - Cardinality(run.busy)

StartRun(directory, photos) ==
    [state |-> "running", dir |-> directory, photos |-> photos, sent |-> 0,
     chan |-> <<>>, closed |-> FALSE, busy |-> {}, exited |-> 0,
     attempted |-> <<>>, failed |-> {}]

\* photoChan <- photo
Send ==
    /\ run.state = "running" /\ run.sent < Len(run.photos)
    /\ Len(run.chan) < capacity(run.photos)
    /\ run' = [run EXCEPT !.sent = run.sent + 1,
                          !.chan = Append(run.chan, run.photos[run.sent + 1])]
    /\ UNCHANGED <<now, volDirs, vol, lib, sel, raw, thumbs, req, resp, codec, pool, ui,
                   calls, routines>>

\* close(photoChan)
Close ==
    /\ run.state = "running" /\ run.sent = Len(run.photos) /\ ~run.closed
    /\ run' = [run EXCEPT !.closed = TRUE]
    /\ UNCHANGED <<now, volDirs, vol, lib, sel, raw, thumbs, req, resp, codec, pool, ui,
                   calls, routines>>

\* a waiting worker receives the next filename
Receive ==
    /\ run.state = "running" /\ Idle > 0 /\ run.chan # <<>>
    /\ run' = [run EXCEPT !.chan = Tail(run.chan), !.busy = run.busy \cup {Head(run.chan)}]
    /\ UNCHANGED <<now, volDirs, vol, lib, sel, raw, thumbs, req, resp, codec, pool, ui,
                   calls, routines>>

\* the run after a failure that makes the worker drop what is left in the channel
afterGenerateHaltsBatch(filename, err) ==
    [run EXCEPT !.busy = run.busy \ {filename},
                !.attempted = Append(run.attempted, filename),
                !.failed = IF err THEN run.failed \cup {filename} ELSE run.failed,
                !.chan = IF err THEN <<>> ELSE run.chan]

\* the run after a worker's call of generateThumbnail(directory, filename): an
\* error is logged, and the worker is back at the channel
afterGenerate(filename, err) ==
    [run EXCEPT !.busy = run.busy \ {filename},
                !.attempted = Append(run.attempted, filename),
                !.failed = IF err THEN run.failed \cup {filename} ELSE run.failed]

\* a worker runs generateThumbnail on the filename it received
Generate(filename, fault) ==
    /\ run.state = "running" /\ filename \in run.busy
    /\ thumbs' = generateThumbnail(run.dir, filename, fault).thumbs
    /\ run' = afterGenerate(filename, generateThumbnail(run.dir, filename, fault).err)
    /\ UNCHANGED <<now, volDirs, vol, lib, sel, raw, req, resp, codec, pool, ui, calls,
                   routines>>

\* a waiting worker finds the channel closed and empty: its loop ends, wg.Done()
Exit ==
    /\ run.state = "running" /\ Idle > 0 /\ run.closed /\ run.chan = <<>>
    /\ run' = [run EXCEPT !.exited = run.exited + 1]
    /\ UNCHANGED <<now, volDirs, vol, lib, sel, raw, thumbs, req, resp, codec, pool, ui,
                   calls, routines>>

\* wg.Wait() returns and the completion is logged
WaitReturns ==
    /\ run.state = "running" /\ run.closed /\ run.exited = numWorkers
    /\ run' = [run EXCEPT !.state = "done"]
    /\ UNCHANGED <<now, volDirs, vol, lib, sel, raw, thumbs, req, resp, codec, pool, ui,
                   calls, routines>>

GenerateStep == \E filename \in run.busy : \E fault \in ThumbFaults : Generate(filename, fault)

NextPregen == Send \/ Close \/ Receive \/ GenerateStep \/ Exit \/ WaitReturns

\* the stored photos of the runs
StoredA == <<"1", "0", "0", "_", "A", ".", "J", "P", "G">>

StoredB == <<"1", "0", "1", "_", "B", ".", "J", "P", "G">>

\* the batches: the sequences of distinct filenames, the empty one included
Batches == {<<>>, <<StoredA>>, <<StoredB>>, <<StoredA, StoredB>>, <<StoredB, StoredA>>}

\* A call of preGenerateThumbnails for session 1 of a library after an import:
\* the first photo stored whole, the second whole, truncated or deleted since,
\* and the thumbnail of the first cached or not.
InitPregen ==
    /\ now = 1
    /\ volDirs = {D100, D101}
    /\ vol = {f \in VolFiles : f.name \in {<<"A", ".", "J", "P", "G">>,
                                            <<"B", ".", "J", "P", "G">>}}
    /\ \E second \in {"full", "part", "none"} :
          lib = [s \in {1} |->
                    IF second = "none" THEN [n \in {StoredA} |-> "full"]
                    ELSE [n \in {StoredA, StoredB} |-> IF n = StoredA THEN "full" ELSE second]]
    /\ sel = [s \in {} |-> Empty]
    /\ raw = [s \in {} |-> Empty]
    /\ \E cached \in SUBSET {<<1, StoredA>>} : thumbs = [k \in cached |-> "full"]
    /\ req = FormDefaults
    /\ resp = NoResp
    /\ codec = NoCodec
    /\ pool = {}
    /\ ui = NoPage
    /\ calls = NoCalls
    /\ routines = {}
    /\ \E photos \in Batches : run = StartRun(1, photos)

SpecPregen == InitPregen /\ [][NextPregen]_vars

\* the number of times filename occurs in sequence s
Count(s, filename) == Cardinality({i \in 1..Len(s) : s[i] = filename})

\* C26: preGenerateThumbnails attempts generation for every filename of its
\* batch.  A failure is logged and swallowed: the worker that hit it is back
\* at the channel (it has not left its loop, and the channel holds what it
\* held), and when the call returns generateThumbnail has been called once for
\* every filename of the batch, those after a failed one included.
C26_EveryFilenameAttempted ==
    [][/\ run'.failed # run.failed
            => run'.exited = run.exited /\ run'.chan = run.chan /\ run'.state = "running"
       /\ run'.state = "done"
            => /\ Len(run'.attempted) = Len(run'.photos)
               /\ \A i \in 1..Len(run'.photos) : Count(run'.attempted, run'.photos[i]) = 1]_vars

\* a call has returned after the first filename of a batch of two failed and
\* the second was generated
C26_Witness ==
    /\ run.state = "done" /\ Len(run.photos) = 2
    /\ run.attempted = run.photos /\ run.failed = {run.photos[1]}
    /\ <<run.dir, run.photos[2]>> \in DOMAIN thumbs


\* The Go scheduler runs every goroutine that can take a step, and each call of
\* generateThumbnail is taken to return: a step of the run that stays possible
\* is taken.
SpecPregenFair == SpecPregen /\ WF_vars(NextPregen)

\* C27: every run of preGenerateThumbnails terminates, for any batch, the empty
\* one included.  The producer never blocks (while a filename is left to send
\* the channel has room, its capacity being the batch size), every filename
\* sent is at one place (in the channel, with one worker, or attempted), and
\* the wait returns, which it does only after the channel was closed and
\* drained and all workers left their loop.
C27_PregenerationTerminates ==
    /\ [](run.state = "running" /\ run.sent < Len(run.photos)
            => Len(run.chan) < capacity(run.photos))
    /\ [](Len(run.chan) + Cardinality(run.busy) + Len(run.attempted) = run.sent)
    /\ [](run.state = "done"
            => /\ run.closed /\ run.chan = <<>> /\ run.busy = {}
               /\ run.exited = numWorkers /\ run.sent = Len(run.photos))
    /\ <>(run.state = "done")

\* the run for an empty batch has returned
C27_Witness == run.state = "done" /\ run.photos = <<>> /\ run.exited = numWorkers


(***************************************************************************)
(* The loop of importFromUSBHandler with the test of the destination and   *)
(* the copy as two steps, for import requests served at the same time.     *)
(***************************************************************************)
\* the test of the destination left out: no file is ever found there
destinationExistsNever(L, d, name) == FALSE

\* os.Stat(destinationFile) succeeds on library L
destinationExists(L, d, name) == name \in DOMAIN Dir(L, d)

\* One iteration of call c up to os.Stat(destinationFile): a file that is
\* filtered out, a duplicate or already there ends the iteration, any other
\* leaves the call before its copy.
ImportStat(c) ==
    /\ calls[c].pc = "loop" /\ calls[c].i <= Len(calls[c].files)
    /\ LET k == calls[c]
           f == k.files[k.i]
           class == Classify(f, k.P.since, k.P.skip, k.P.videos, importedFiles(c))
           made == IF k.created THEN lib ELSE MkdirAll(lib, k.P.dest)
       IN IF class = "ignore"
          THEN /\ calls' = [calls EXCEPT ![c].i = k.i + 1]
               /\ UNCHANGED lib
          ELSE IF class = "dup"
            THEN /\ calls' = [calls EXCEPT ![c].i = k.i + 1, ![c].skipped = k.skipped + 1]
                 /\ UNCHANGED lib
          ELSE /\ lib' = made
               /\ calls' = IF destinationExists(made, k.P.dest, NameInfo[f].dest)
                           THEN [calls EXCEPT ![c].i = k.i + 1, ![c].created = TRUE]
                           ELSE [calls EXCEPT ![c].pc = "copy", ![c].created = TRUE]
    /\ UNCHANGED <<now, volDirs, vol, sel, raw, thumbs, req, resp, codec, pool, ui, routines,
                   run>>

\* the rest of the iteration: os.Open, os.Create, io.Copy, copiedCount++
ImportCopy(c) ==
    /\ calls[c].pc = "copy"
    /\ LET k == calls[c]
           f == k.files[k.i]
           dest == NameInfo[f].dest
       IN /\ lib' = Put(lib, k.P.dest, Put(Dir(lib, k.P.dest), dest, "full"))
          /\ calls' = [calls EXCEPT ![c].pc = "loop", ![c].i = k.i + 1,
                                    ![c].copied = k.copied + 1,
                                    ![c].copiedFiles = IF NameInfo[f].jpg
                                                       THEN Append(k.copiedFiles, dest)
                                                       ELSE k.copiedFiles]
    /\ UNCHANGED <<now, volDirs, vol, sel, raw, thumbs, req, resp, codec, pool, ui, routines,
                   run>>

ImportStatStep == \E c \in Calls : ImportStat(c)

ImportCopyStep == \E c \in Calls : ImportCopy(c)

NextInterleaved ==
    ImportBeginStep \/ ImportStatStep \/ ImportCopyStep \/ ImportEndStep \/ Tick

\* two import requests served at the same time, a step at each file system call
\* that tests or writes the destination
SpecInterleaved == InitBatch /\ [][NextInterleaved]_vars

\* the destination file call c is about to write
CopyTarget(c) == NameInfo[calls[c].files[calls[c].i]].dest

\* call c copies a file in this step
Copies(c) == calls[c].pc = "copy" /\ calls'[c].pc = "loop"

\* the calls in progress that write to session d
Into(d) == {c \in Calls : calls[c].pc # "idle" /\ calls[c].P.dest = d}

\* the files of session d that were not there when any of the calls in progress
\* into d began
NewSince(d) ==
    {n \in DOMAIN Dir(lib, d) : \E c \in Into(d) : n \notin DOMAIN Dir(calls[c].began, d)}

Complete(L) == {n \in buildImportedFilesSet(L) : \E s \in DOMAIN L : n \in DOMAIN L[s] /\ L[s][n] = "full"}

\* the photos and videos of the card, the files import and deleteImported look at
Originals(V) ==
    {f \in V : /\ ~f.isDir
               /\ \/ HasSuffix(ToLower(f.name), <<".", "j", "p", "g">>)
                  \/ HasSuffix(ToLower(f.name), <<".", "m", "p", "4">>)}

\* C29: a destination file left by a copy that failed partway is not treated
\* as imported: an import with skip_duplicates skips only sources that have a
\* complete copy in the library, and deleteImported removes a photo or video
\* from the card only if a complete copy of it is in the library.
C29_PartialCopyIsNotImported ==
    [][/\ IsCall("import") /\ req.skip
            => resp'.r.skipped <=
                 Cardinality({f \in Originals(vol) : Prefixed(f) \in Complete(lib)})
       /\ IsCall("deleteImported")
            => \A f \in Originals(vol) \ vol' : Prefixed(f) \in Complete(lib)]_vars


(***************************************************************************)
(* The selection of the page (App.js): handleSelection and handleSave.     *)
(* handleSave sends its request and returns; the page handles keys and     *)
(* clicks until the response runs the rest of it.                          *)
(***************************************************************************)
\* the requests of handleSave that can be pending at once
MaxSaves == 2

\* photos[currentIndex], the photo a key or the select button acts on
currentPhotoName == ui.photos[ui.currentIndex + 1]

\* handleSelection(photoName, select): a saved photo is left alone
handleSelection(photoName, select) ==
    /\ ui' = Handled("handleSelection",
                 [ui EXCEPT !.selectedPhotos =
                                IF photoName \in ui.savedPhotos THEN @
                                ELSE IF select THEN @ \cup {photoName}
                                ELSE @ \ {photoName},
                            !.chosen = IF select THEN @ \cup {photoName}
                                       ELSE @ \ {photoName}])
    /\ UNCHANGED server

\* disabled={selectedPhotos.size === 0} of the Save button
SaveDisabled == ui.selectedPhotos = {}

\* handleSave up to its fetch: the request carries the selected and the saved
\* photos of this render
handleSave ==
    /\ ~SaveDisabled
    /\ Cardinality(ui.saves) < MaxSaves
    /\ ui' = Handled("handleSave",
                 [ui EXCEPT !.saves = @ \cup {[directory |-> ui.currentDirectory,
                                               allFilesToSave |-> ui.selectedPhotos
                                                                    \cup ui.savedPhotos]}])
    /\ UNCHANGED server

\* handleSave from the response on: after a success the files of the request
\* become savedPhotos and selectedPhotos is emptied; an error status leaves
\* both sets alone
saved(s, data) ==
    Handled("saved",
        IF data.status = 200
        THEN [ui EXCEPT !.savedPhotos = s.allFilesToSave,
                        !.selectedPhotos = {},
                        !.saves = @ \ {s}]
        ELSE [ui EXCEPT !.saves = @ \ {s}])

\* the state the server and the page are left in by the save out of request s
SaveReturned(s, out) ==
    /\ lib' = out.lib
    /\ sel' = out.sel
    /\ resp' = Answer(out.resp)
    /\ ui' = saved(s, out.resp)

\* the server handles a pending save and handleSave runs to its end
SaveReturns(s) ==
    /\ SaveReturned(s, saveSelectedPhotosHandler(s.directory, s.allFilesToSave, NoFaults))
    /\ UNCHANGED <<now, volDirs, vol, raw, thumbs, req, codec, pool, calls, routines, run>>

SelectionStep ==
    \E select \in BOOLEAN : Len(ui.photos) > 0 /\ handleSelection(currentPhotoName, select)

SaveReturnsStep == \E s \in ui.saves : SaveReturns(s)

NextSelect ==
    \/ ImportStep
    \/ Reload
    \/ LoadPhotos
    \/ LoadSelected
    \/ NavigateStep
    \/ SelectionStep
    \/ handleSave
    \/ SaveReturnsStep

\* one page over a library that imports fill, every file operation succeeding
SpecSelect == InitBatch /\ [][NextSelect]_vars

\* C30: in the page no selection is lost: every photo the user selected and
\* did not unselect since the selection of the directory was loaded is in
\* selectedPhotos or in savedPhotos, after every select, unselect and save
\* click and every save response, a save request pending or not.
C30_NoSelectionLost == ui.chosen \subseteq ui.selectedPhotos \cup ui.savedPhotos

====
